---- MODULE Spec2Model ----
(***************************************************************************)
(* A model of slime_seed_finder: the Java LCG (src/src/java_rng.rs), the   *)
(* layered biome generator and its inverse layers, and the river seed      *)
(* finder (src/src/biome_layers.rs).                                       *)
(*                                                                         *)
(* The program computes on u64/i64/i32 machine integers.  A u64 is kept    *)
(* here as six limbs of 12 bits, least significant first (the sixth limb   *)
(* holds the top 4 bits), so that every wrapping operation of the code is  *)
(* computed at its full width.                                             *)
(***************************************************************************)
EXTENDS Integers, Sequences, FiniteSets, TLC

\* seed, pc, rngOp, rngSteps: one JavaRng and the call in progress on it.
\* call, arg, ret: a call of one of the functions of biome_layers.rs, its
\* arguments and what it returned.
VARIABLES seed, pc, rngOp, rngSteps, call, arg, ret

rngVars == <<seed, pc, rngOp, rngSteps>>
fnVars == <<call, arg, ret>>
vars == <<seed, pc, rngOp, rngSteps, call, arg, ret>>

(***************************************************************************)
(* u64 arithmetic on limbs                                                 *)
(***************************************************************************)
\* The limb base
W == 2^12

Pow2(k) == 2^k

\* A u64 from a natural number below 2^31.
FromNat(x) == <<x % W, (x \div W) % W, x \div (W * W), 0, 0, 0>>

Zero64 == FromNat(0)

One64 == FromNat(1)

\* u64::wrapping_add
WrappingAdd(a, b) ==
  LET s1 == a[1] + b[1]
      s2 == a[2] + b[2] + s1 \div W
      s3 == a[3] + b[3] + s2 \div W
      s4 == a[4] + b[4] + s3 \div W
      s5 == a[5] + b[5] + s4 \div W
      s6 == a[6] + b[6] + s5 \div W
  IN  <<s1 % W, s2 % W, s3 % W, s4 % W, s5 % W, s6 % 16>>

\* u64::wrapping_sub
WrappingSub(a, b) ==
  LET s1 == a[1] - b[1]
      s2 == a[2] - b[2] + s1 \div W
      s3 == a[3] - b[3] + s2 \div W
      s4 == a[4] - b[4] + s3 \div W
      s5 == a[5] - b[5] + s4 \div W
      s6 == a[6] - b[6] + s5 \div W
  IN  <<s1 % W, s2 % W, s3 % W, s4 % W, s5 % W, s6 % 16>>

\* u64::wrapping_mul
WrappingMul(a, b) ==
  LET p1 == a[1] * b[1]
      p2 == a[1] * b[2] + a[2] * b[1] + p1 \div W
      p3 == a[1] * b[3] + a[2] * b[2] + a[3] * b[1] + p2 \div W
      p4 == a[1] * b[4] + a[2] * b[3] + a[3] * b[2] + a[4] * b[1] + p3 \div W
      p5 == a[1] * b[5] + a[2] * b[4] + a[3] * b[3] + a[4] * b[2] + a[5] * b[1]
              + p4 \div W
      p6 == a[1] * b[6] + a[2] * b[5] + a[3] * b[4] + a[4] * b[3] + a[5] * b[2]
              + a[6] * b[1] + p5 \div W
  IN  <<p1 % W, p2 % W, p3 % W, p4 % W, p5 % W, p6 % 16>>

\* x >> (12 * q)
ShrLimbs(a, q) ==
  LET at(i) == IF i + q <= 6 THEN a[i + q] ELSE 0
  IN  <<at(1), at(2), at(3), at(4), at(5), at(6)>>

\* x >> r, for r < 12
ShrBits(a, r) ==
  LET lo(i) == a[i] \div Pow2(r)
      hi(i) == (a[i + 1] % Pow2(r)) * Pow2(12 - r)
  IN  <<lo(1) + hi(1), lo(2) + hi(2), lo(3) + hi(3), lo(4) + hi(4),
        lo(5) + hi(5), lo(6)>>

\* x >> k on a u64, 0 <= k < 64
Shr(a, k) == ShrBits(ShrLimbs(a, k \div 12), k % 12)

\* x as i32: the low 32 bits, read as a two's-complement integer
AsI32(a) ==
  LET top == a[3] % 256
  IN  a[1] + a[2] * W + (IF top >= 128 THEN top - 256 ELSE top) * W * W

\* x & 1
LowBit(a) == a[1] % 2

(***************************************************************************)
(* src/src/java_rng.rs                                                     *)
(***************************************************************************)
\* lcg_const::A = 0x5DEECE66D
A == <<1645, 3790, 1502, 0, 0, 0>>

\* lcg_const::C = 0xB
C == <<11, 0, 0, 0, 0, 0>>

\* lcg_const_extra::INV_A = 0xdfe05bcb1365
INV_A == <<869, 3249, 91, 3582, 0, 0>>

\* lcg_const_extra::INV_A_1 = 18698324575379
INV_A_1 == <<1171, 4072, 394, 272, 0, 0>>

\* lcg_const_extra::INV__INV_A__1 = 192407907957609
INV__INV_A__1 == <<2921, 23, 3701, 2799, 0, 0>>

\* x & mask(48)
Mask48(a) == <<a[1], a[2], a[3], a[4], 0, 0>>

\* JavaRng::get_raw_seed
get_raw_seed(s) == Mask48(s)

\* JavaRng::next_state: s * A + C
next_state(s) == WrappingAdd(WrappingMul(s, A), C)

\* last_next without the mask of the state
last_next_unmasked(s, bits) == AsI32(Shr(s, 48 - bits))

\* JavaRng::last_next: the value next(bits) returns once the state is s
last_next(s, bits) == AsI32(Shr(Mask48(s), 48 - bits))

\* JavaRng::previous_state
previous_state(s) == Mask48(WrappingMul(WrappingSub(s, C), INV_A))

\* The loop of pow_wrapping and its last step.  (The round's new base and acc
\* are bound as set elements so that they are values before the next round.)
RECURSIVE pow_loop(_, _, _)
pow_loop(base, exp, acc) ==
  IF exp # Zero64 /\ exp # One64
  THEN CHOOSE r \in
         {pow_loop(b, Shr(exp, 1), a) :
            b \in {WrappingMul(base, base)},
            a \in {IF LowBit(exp) = 1 THEN WrappingMul(acc, base) ELSE acc}} : TRUE
  ELSE IF exp = One64 THEN WrappingMul(acc, base) ELSE acc

\* pow_wrapping: base^exp mod 2^64
pow_wrapping(base, exp) == pow_loop(base, exp, One64)

\* next_n_calls with the division of a^n - 1 by 4 left out
next_n_calls_noshift(s, n) ==
  IF n = Zero64 THEN s
  ELSE IF n = One64 THEN next_state(s)
  ELSE LET an == pow_wrapping(A, n)
           aes == WrappingMul(WrappingSub(an, One64), INV_A_1)
           caa == WrappingMul(C, aes)
       IN  WrappingAdd(WrappingMul(s, an), caa)

\* JavaRng::next_n_calls: the state after the call
next_n_calls(s, n) ==
  IF n = Zero64 THEN s
  ELSE IF n = One64 THEN next_state(s)
  ELSE LET an == pow_wrapping(A, n)
           aes == WrappingMul(Shr(WrappingSub(an, One64), 2), INV_A_1)
           caa == WrappingMul(C, aes)
       IN  WrappingAdd(WrappingMul(s, an), caa)

\* JavaRng::previous_2
previous_2(s) ==
  WrappingMul(WrappingSub(WrappingMul(WrappingSub(s, C), INV_A), C), INV_A)

\* previous_n_calls with the factor d of c * d * des left out
previous_n_calls_nod(s, n) ==
  IF n = Zero64 THEN s
  ELSE IF n = One64 THEN previous_state(s)
  ELSE IF n = FromNat(2) THEN previous_2(s)
  ELSE LET dn == pow_wrapping(INV_A, n)
           des == WrappingMul(Shr(WrappingSub(dn, One64), 2), INV__INV_A__1)
           cdd == WrappingMul(C, des)
       IN  WrappingSub(WrappingMul(s, dn), cdd)

\* JavaRng::previous_n_calls: the state after the call
previous_n_calls(s, n) ==
  IF n = Zero64 THEN s
  ELSE IF n = One64 THEN previous_state(s)
  ELSE IF n = FromNat(2) THEN previous_2(s)
  ELSE LET dn == pow_wrapping(INV_A, n)
           des == WrappingMul(Shr(WrappingSub(dn, One64), 2), INV__INV_A__1)
           cdd == WrappingMul(WrappingMul(C, INV_A), des)
       IN  WrappingSub(WrappingMul(s, dn), cdd)

RECURSIVE XorBits(_, _, _)
XorBits(a, b, k) ==
  IF k = 0 THEN 0 ELSE ((a + b) % 2) + 2 * XorBits(a \div 2, b \div 2, k - 1)

\* a ^ b on u64
Xor64(a, b) ==
  <<XorBits(a[1], b[1], 12), XorBits(a[2], b[2], 12), XorBits(a[3], b[3], 12),
    XorBits(a[4], b[4], 12), XorBits(a[5], b[5], 12), XorBits(a[6], b[6], 4)>>

\* JavaRng::with_seed / set_seed: the internal state is s ^ A
with_seed(s) == Xor64(s, A)

\* n & -n on a positive i32: the lowest set bit of n
RECURSIVE LowestSetBit(_)
LowestSetBit(n) == IF n % 2 = 1 THEN 1 ELSE 2 * LowestSetBit(n \div 2)

\* i32::MAX
MaxI32 == 2147483647

\* bits.wrapping_sub(val).wrapping_add(n - 1) >= 0 in i32, for 0 <= val <= bits
\* and n >= 1: the sum wraps to a negative number exactly when it passes i32::MAX
NoModuloBias(bits, val, n) == bits - val <= MaxI32 - (n - 1)

\* (1u32 << 31) / 10 * 10
Limit10 == 2147483640

\* The test of next_int_n_10 with the limit itself accepted
AcceptBits10_le(bits) == bits <= Limit10

\* next_int_n_10: bits < limit as i32, the draw is kept
AcceptBits10(bits) == bits < Limit10

\* The power-of-two draw shifted by 30 instead of 31
PowerOfTwoDraw_shift30(n, bits) ==
  AsI32(Shr(WrappingMul(FromNat(n), FromNat(bits)), 30))

\* (((n as i64) * (bits as i64)) >> 31) as i32
PowerOfTwoDraw(n, bits) == AsI32(Shr(WrappingMul(FromNat(n), FromNat(bits)), 31))

(***************************************************************************)
(* The generator as a state machine: one JavaRng, called by its owner.     *)
(* rngOp remembers the last call (name, argument, state before, result).   *)
(***************************************************************************)
\* Largest small argument of next_n_calls / previous_n_calls that is tried
MaxN == 4

\* Calls made on one generator
MaxRngOps == 2

\* 2^48 + k
Big48(k) == <<k, 0, 0, 0, 1, 0>>

\* 2^63 + 2^48 + k
Big63(k) == <<k, 0, 0, 0, 1, 8>>

\* Arguments n of next_n_calls and previous_n_calls
NCalls ==
  {FromNat(k) : k \in 0..MaxN} \cup {FromNat(40)}
    \cup {Big48(0), Big48(2), Big63(3)}

\* n mod 2^48, for the arguments above (all have it below 2^24)
Steps48(n) == n[1] + n[2] * W

\* Arguments n of next_int_n
NInts == {0, 1, 2, 3, 7, 10, 16, 1000, 1073741824, 1073741825, 2147483647}

\* Initial internal states
RngSeeds ==
  {with_seed(FromNat(12345)), with_seed(FromNat(12345678)),
   <<4095, 4095, 4095, 4095, 4095, 15>>}

\* n: the u64 argument of next_n_calls / previous_n_calls; m: the i32 argument
\* of next(bits) and next_int_n(n)
RngCall(name, n, m, r) ==
  [name |-> name, n |-> n, m |-> m, before |-> seed, ret |-> r]

RngInit ==
  /\ seed \in RngSeeds
  /\ pc = "idle"
  /\ rngOp = [name |-> "new", n |-> Zero64, m |-> 0, before |-> seed, ret |-> 0]
  /\ rngSteps = 0

RngReady == pc = "idle" /\ rngSteps < MaxRngOps

\* JavaRng::next(bits)
Next_(bits) ==
  /\ RngReady
  /\ seed' = next_state(seed)
  /\ rngOp' = RngCall("next", One64, bits, last_next(seed', bits))
  /\ rngSteps' = rngSteps + 1
  /\ UNCHANGED <<pc, fnVars>>

NextNCalls(n) ==
  /\ RngReady
  /\ seed' = next_n_calls(seed, n)
  /\ rngOp' = RngCall("next_n_calls", n, 0, 0)
  /\ rngSteps' = rngSteps + 1
  /\ UNCHANGED <<pc, fnVars>>

Previous ==
  /\ RngReady
  /\ seed' = previous_state(seed)
  /\ rngOp' = RngCall("previous", One64, 0, 0)
  /\ rngSteps' = rngSteps + 1
  /\ UNCHANGED <<pc, fnVars>>

Previous2 ==
  /\ RngReady
  /\ seed' = previous_2(seed)
  /\ rngOp' = RngCall("previous_2", FromNat(2), 0, 0)
  /\ rngSteps' = rngSteps + 1
  /\ UNCHANGED <<pc, fnVars>>

PreviousNCalls(n) ==
  /\ RngReady
  /\ seed' = previous_n_calls(seed, n)
  /\ rngOp' = RngCall("previous_n_calls", n, 0, 0)
  /\ rngSteps' = rngSteps + 1
  /\ UNCHANGED <<pc, fnVars>>

\* JavaRng::next_int_n up to its loops: n = 10 goes to next_int_n_10, n <= 0
\* panics, a power of two returns after one draw
NextIntN(n) ==
  /\ RngReady
  /\ rngSteps' = rngSteps + 1
  /\ UNCHANGED fnVars
  /\ IF n = 10
     THEN /\ pc' = "next_int_n_10"
          /\ rngOp' = RngCall("next_int_n", Zero64, n, 0)
          /\ UNCHANGED seed
     ELSE IF ~(n > 0)
     THEN /\ pc' = "panic"
          /\ rngOp' = RngCall("next_int_n", Zero64, n, 0)
          /\ UNCHANGED seed
     ELSE IF LowestSetBit(n) = n
     THEN /\ seed' = next_state(seed)
          /\ rngOp' = RngCall("next_int_n", Zero64, n,
                           PowerOfTwoDraw(n, last_next(seed', 31)))
          /\ pc' = "returned"
     ELSE /\ pc' = "next_int_n"
          /\ rngOp' = RngCall("next_int_n", Zero64, n, 0)
          /\ UNCHANGED seed

\* One round of the rejection loop of next_int_n
NextIntNLoop ==
  /\ pc = "next_int_n"
  /\ seed' = next_state(seed)
  /\ LET bits == last_next(seed', 31)
         val == bits % rngOp.m
     IN  IF NoModuloBias(bits, val, rngOp.m)
         THEN /\ pc' = "returned"
              /\ rngOp' = [rngOp EXCEPT !.ret = val]
         ELSE UNCHANGED <<pc, rngOp>>
  /\ UNCHANGED <<rngSteps, fnVars>>

\* One round of the loop of next_int_n_10
NextIntN10Loop ==
  /\ pc = "next_int_n_10"
  /\ seed' = next_state(seed)
  /\ LET bits == last_next(seed', 31)
     IN  IF AcceptBits10(bits)
         THEN /\ pc' = "returned"
              /\ rngOp' = [rngOp EXCEPT !.ret = bits % 10]
         ELSE UNCHANGED <<pc, rngOp>>
  /\ UNCHANGED <<rngSteps, fnVars>>

\* The caller takes the result
RngReturn ==
  /\ pc = "returned"
  /\ pc' = "idle"
  /\ UNCHANGED <<seed, rngOp, rngSteps, fnVars>>

RngNext ==
  \/ \E bits \in {0, 1, 31, 32} : Next_(bits)
  \/ \E n \in NCalls : NextNCalls(n)
  \/ Previous
  \/ Previous2
  \/ \E n \in NCalls : PreviousNCalls(n)
  \/ \E n \in NInts : NextIntN(n)
  \/ NextIntNLoop
  \/ NextIntN10Loop
  \/ RngReturn

\* No function of biome_layers.rs is called
FnIdle == call = "none" /\ arg = <<>> /\ ret = <<>>

\* The loops of next_int_n run until they return: nothing else runs meanwhile
SpecRngInit == RngInit /\ FnIdle

SpecRng ==
  /\ SpecRngInit
  /\ [][RngNext]_vars
  /\ WF_vars(NextIntNLoop) /\ WF_vars(NextIntN10Loop)

(***************************************************************************)
(* Claims about the generator                                              *)
(***************************************************************************)
\* k successive calls to next, on the internal state
RECURSIVE IterNext(_, _)
IterNext(s, k) ==
  IF k = 0 THEN s
  ELSE CHOOSE r \in {IterNext(t, k - 1) : t \in {next_state(s)}} : TRUE

\* C8: next_n_calls(n) leaves the generator in the same 48-bit state as n
\* successive calls to next, for small n and for n >= 2^48 (the LCG has period
\* 2^48 on its 48-bit state, so n calls are n mod 2^48 calls); next_n_calls(2^48)
\* leaves the 48-bit state unchanged.
C8_NextNCallsIsNNext ==
  rngOp.name = "next_n_calls" =>
    Mask48(seed) = Mask48(IterNext(rngOp.before, Steps48(rngOp.n)))

C8_Witness ==
  /\ rngOp.name = "next_n_calls"
  /\ rngOp.n = Big48(2)
  /\ rngSteps = 2
  /\ Mask48(seed) # Mask48(rngOp.before)
  /\ Mask48(seed) = Mask48(next_state(next_state(rngOp.before)))

\* C9: previous, previous_2 and previous_n_calls(n) undo n calls to next on the
\* 48-bit state, in both orders: advancing the state they leave n times gives
\* the state before, and rewinding by n the state advanced n times gives it
\* too; previous_n_calls(2^48) leaves the 48-bit state unchanged.
C9_PreviousNCallsInvertsNext ==
  rngOp.name \in {"previous", "previous_2", "previous_n_calls"} =>
    /\ Mask48(IterNext(seed, Steps48(rngOp.n))) = Mask48(rngOp.before)
    /\ Mask48(previous_n_calls(IterNext(rngOp.before, Steps48(rngOp.n)), rngOp.n))
         = Mask48(rngOp.before)

C9_Witness ==
  /\ rngOp.name = "previous_n_calls"
  /\ rngOp.n = FromNat(40)
  /\ rngSteps = 2
  /\ Mask48(seed) # Mask48(rngOp.before)
  /\ Mask48(IterNext(seed, 40)) = Mask48(rngOp.before)

\* C10: next_int_n(n), n > 0, returns after finitely many draws of next(31), and
\* the value v it returns has 0 <= v < n.
C10_NextIntNReturnsInRange ==
  /\ [](pc = "returned" /\ rngOp.name = "next_int_n"
          => 0 <= rngOp.ret /\ rngOp.ret < rngOp.m)
  /\ [](pc \in {"next_int_n", "next_int_n_10"} => <>(pc = "returned"))

\* A call with n = 2^30 + 1 that rejected at least one draw before it returned
C10_Witness ==
  /\ pc = "returned"
  /\ rngOp.name = "next_int_n"
  /\ rngOp.m = 1073741825
  /\ Mask48(seed) # Mask48(next_state(rngOp.before))
  /\ rngOp.ret < rngOp.m

(***************************************************************************)
(* src/src/biome_layers.rs: the area each layer asks of its parent and the *)
(* area of the map it returns.  None of these computations reads a cell,   *)
(* so a map is kept here as its origin and the dimensions of its array.    *)
(***************************************************************************)
\* struct Area
Area(x, z, w, h) == [x |-> x, z |-> z, w |-> w, h |-> h]

\* Map::area of a map that was returned
MapArea(x, z, w, h) == [ok |-> TRUE, x |-> x, z |-> z, w |-> w, h |-> h]

\* The call panicked (a failed assert_eq!, a slice out of bounds)
Panicked == [ok |-> FALSE, x |-> 0, z |-> 0, w |-> 0, h |-> 0]

\* Layers whose get_map returns Map::new(area) without a parent
SourceLayers == {"MapIsland", "MapOceanTemp", "TestMapZero"}

\* Layers that read the 3x3 neighbourhood of each parent cell
StencilLayers ==
  {"MapAddIsland", "MapRemoveTooMuchOcean", "MapAddSnow", "MapCoolWarm",
   "MapHeatIce", "MapAddMushroomIsland", "MapDeepOcean", "MapBiomeEdge",
   "MapHills", "MapRareBiome", "MapShore", "MapSmooth", "MapRiver",
   "MapTreasure"}

\* Layers that double the resolution of their parent
ZoomLayers == {"MapZoom", "MapHalfVoronoiZoom"}

\* Layers that quadruple the resolution of their parent
VoronoiLayers == {"MapVoronoiZoom", "MapVoronoiZoom115"}

\* Layers with two parents
TwoParentLayers == {"MapHills", "MapRiverMix", "MapOceanMix"}

\* parea of get_map; every other layer (MapSpecial, MapBiome, MapRiverInit,
\* MapAddBamboo, MapRiverMix, the ocean parent of MapOceanMix) passes the area on
ParentArea(kind, area) ==
  IF kind \in StencilLayers
  THEN Area(area.x - 1, area.z - 1, area.w + 2, area.h + 2)
  ELSE IF kind \in ZoomLayers
  THEN Area(area.x \div 2, area.z \div 2, (area.w \div 2) + 2, (area.h \div 2) + 2)
  ELSE IF kind \in VoronoiLayers
  THEN Area((area.x - 2) \div 4, (area.z - 2) \div 4,
            (area.w \div 4) + 3, (area.h \div 4) + 3)
  ELSE area

\* land_area of MapOceanMix
LandArea(area) == Area(area.x - 8, area.z - 8, area.w + 17, area.h + 17)

\* MapVoronoiZoom::get_map_from_pmap: the area of the map it builds
VoronoiFromPmap(p) ==
  MapArea(p.x * 4 + 2, p.z * 4 + 2, (p.w - 1) * 4, (p.h - 1) * 4)

\* MapHalfVoronoiZoom::get_map_from_pmap: MapVoronoiZoom, then every second cell
HalfVoronoiFromPmap(p) ==
  LET v == VoronoiFromPmap(p)
  IN  MapArea(v.x \div 2, v.z \div 2, v.w \div 2, v.h \div 2)

\* get_map_from_pmap with the width of a stencil layer one too small
AreaFromPmap_narrow(kind, p) ==
  IF ~p.ok THEN Panicked
  ELSE IF kind \in StencilLayers THEN MapArea(p.x + 1, p.z + 1, p.w - 3, p.h - 2)
  ELSE IF kind = "MapHalfVoronoiZoom" THEN HalfVoronoiFromPmap(p)
  ELSE IF kind \in ZoomLayers THEN MapArea(p.x * 2, p.z * 2, (p.w - 1) * 2, (p.h - 1) * 2)
  ELSE IF kind \in VoronoiLayers THEN VoronoiFromPmap(p)
  ELSE p

\* get_map_from_pmap: the area of the map built from a parent map of area p
AreaFromPmap(kind, p) ==
  IF ~p.ok THEN Panicked
  ELSE IF kind \in StencilLayers THEN MapArea(p.x + 1, p.z + 1, p.w - 2, p.h - 2)
  ELSE IF kind = "MapHalfVoronoiZoom" THEN HalfVoronoiFromPmap(p)
  ELSE IF kind \in ZoomLayers THEN MapArea(p.x * 2, p.z * 2, (p.w - 1) * 2, (p.h - 1) * 2)
  ELSE IF kind \in VoronoiLayers THEN VoronoiFromPmap(p)
  ELSE p

\* map.x += nx; map.z += nz; map.a.slice_collapse(s![nx..nx + w, nz..nz + h]):
\* the slice panics when it ends past the array
SliceCollapse(m, nx, nz, area) ==
  IF nx + area.w > m.w \/ nz + area.h > m.h THEN Panicked
  ELSE MapArea(m.x + nx, m.z + nz, area.w, area.h)

\* The end of get_map: the zooming layers crop the map they built, the others
\* return it as it is ("No need to crop")
Crop(kind, area, m) ==
  IF ~m.ok THEN Panicked
  ELSE IF kind \in ZoomLayers THEN SliceCollapse(m, area.x % 2, area.z % 2, area)
  ELSE IF kind \in VoronoiLayers
  THEN LET parea == ParentArea(kind, area)
       IN  IF <<m.w, m.h>> # <<(parea.w - 1) * 4, (parea.h - 1) * 4>> THEN Panicked
           ELSE SliceCollapse(m, (area.x - 2) % 4, (area.z - 2) % 4, area)
  ELSE m

\* One layer of a generator: its type and the layers its parents are
Layer(kind, p1, p2) == [kind |-> kind, p1 |-> p1, p2 |-> p2]

\* generator_up_to_layer_1_7: the layers g0 .. g43 and their parents
generator_1_7 ==
  "g0" :> Layer("MapIsland", "none", "none") @@
  "g1" :> Layer("MapZoom", "g0", "none") @@
  "g2" :> Layer("MapAddIsland", "g1", "none") @@
  "g3" :> Layer("MapZoom", "g2", "none") @@
  "g4" :> Layer("MapAddIsland", "g3", "none") @@
  "g5" :> Layer("MapAddIsland", "g4", "none") @@
  "g6" :> Layer("MapAddIsland", "g5", "none") @@
  "g7" :> Layer("MapRemoveTooMuchOcean", "g6", "none") @@
  "g8" :> Layer("MapAddSnow", "g7", "none") @@
  "g9" :> Layer("MapAddIsland", "g8", "none") @@
  "g10" :> Layer("MapCoolWarm", "g9", "none") @@
  "g11" :> Layer("MapHeatIce", "g10", "none") @@
  "g12" :> Layer("MapSpecial", "g11", "none") @@
  "g13" :> Layer("MapZoom", "g12", "none") @@
  "g14" :> Layer("MapZoom", "g13", "none") @@
  "g15" :> Layer("MapAddIsland", "g14", "none") @@
  "g16" :> Layer("MapAddMushroomIsland", "g15", "none") @@
  "g17" :> Layer("MapDeepOcean", "g16", "none") @@
  "g18" :> Layer("MapBiome", "g17", "none") @@
  "g19" :> Layer("MapZoom", "g18", "none") @@
  "g20" :> Layer("MapZoom", "g19", "none") @@
  "g21" :> Layer("MapBiomeEdge", "g20", "none") @@
  "g22" :> Layer("MapRiverInit", "g17", "none") @@
  "g23" :> Layer("MapZoom", "g22", "none") @@
  "g24" :> Layer("MapZoom", "g23", "none") @@
  "g25" :> Layer("MapHills", "g21", "g24") @@
  "g26" :> Layer("MapRareBiome", "g25", "none") @@
  "g27" :> Layer("MapZoom", "g26", "none") @@
  "g28" :> Layer("MapAddIsland", "g27", "none") @@
  "g29" :> Layer("MapZoom", "g28", "none") @@
  "g30" :> Layer("MapShore", "g29", "none") @@
  "g31" :> Layer("MapZoom", "g30", "none") @@
  "g32" :> Layer("MapZoom", "g31", "none") @@
  "g33" :> Layer("MapSmooth", "g32", "none") @@
  "g34" :> Layer("MapZoom", "g22", "none") @@
  "g35" :> Layer("MapZoom", "g34", "none") @@
  "g36" :> Layer("MapZoom", "g35", "none") @@
  "g37" :> Layer("MapZoom", "g36", "none") @@
  "g38" :> Layer("MapZoom", "g37", "none") @@
  "g39" :> Layer("MapZoom", "g38", "none") @@
  "g40" :> Layer("MapRiver", "g39", "none") @@
  "g41" :> Layer("MapSmooth", "g40", "none") @@
  "g42" :> Layer("MapRiverMix", "g33", "g41") @@
  "g43" :> Layer("MapVoronoiZoom", "g42", "none")

\* generator_up_to_layer_1_13: g0 .. g42 as in 1.7, then the ocean layers
generator_1_13 ==
  "g43" :> Layer("MapOceanTemp", "none", "none") @@
  "g44" :> Layer("MapZoom", "g43", "none") @@
  "g45" :> Layer("MapZoom", "g44", "none") @@
  "g46" :> Layer("MapZoom", "g45", "none") @@
  "g47" :> Layer("MapZoom", "g46", "none") @@
  "g48" :> Layer("MapZoom", "g47", "none") @@
  "g49" :> Layer("MapZoom", "g48", "none") @@
  "g50" :> Layer("MapOceanMix", "g42", "g49") @@
  "g51" :> Layer("MapVoronoiZoom", "g50", "none") @@
  generator_1_7

\* generator_up_to_layer_1_14: MapAddBamboo between g18 and g19
generator_1_14 ==
  "g18b" :> Layer("MapAddBamboo", "g18", "none") @@
  "g19" :> Layer("MapZoom", "g18b", "none") @@
  generator_1_13

\* generator_up_to_layer_1_15: the last layer is MapVoronoiZoom115
generator_1_15 ==
  "g51" :> Layer("MapVoronoiZoom115", "g50", "none") @@
  generator_1_14

MinecraftVersion == {"Java1_7", "Java1_13", "Java1_14", "Java1_15"}

generator(version) ==
  CASE version = "Java1_7" -> generator_1_7
    [] version = "Java1_13" -> generator_1_13
    [] version = "Java1_14" -> generator_1_14
    [] version = "Java1_15" -> generator_1_15

\* MinecraftVersion::num_layers
num_layers(version) == IF version = "Java1_7" THEN 43 ELSE 51

\* generator_up_to_layer_*: the layer returned for `layer`: g<layer> while an
\* `if layer == k { return .. }` matches (some of them wrapped in a MapMap, which
\* keeps the area), the last layer of the generator otherwise
generator_up_to_layer(version, layer) ==
  IF "g" \o ToString(layer) \in DOMAIN generator(version)
  THEN "g" \o ToString(layer)
  ELSE IF version = "Java1_7" THEN "g43" ELSE "g51"

\* The generator of a test: one layer over a parent that returns the area asked
test_generator(kind) ==
  "parent" :> Layer("TestMapZero", "none", "none") @@
  "gen" :> Layer(kind, IF kind \in SourceLayers THEN "none" ELSE "parent", "none")

\* generate_fragment_treasure_map: MapTreasure over MapHalfVoronoiZoom over
\* layer 50 of the generator
treasure_generator(version) ==
  "mhv" :> Layer("MapHalfVoronoiZoom", generator_up_to_layer(version, 50), "none") @@
  "mt" :> Layer("MapTreasure", "mhv", "none") @@
  generator(version)

\* GetMap::get_map of layer g of generator gen: the area of the map returned.
\* (The parents' maps are bound as set elements so that they are values before
\* the layer uses them.)
RECURSIVE get_map(_, _, _)
get_map(gen, g, area) ==
  LET kind == gen[g].kind
      Mix(pmap1, pmap2) ==
        IF ~pmap1.ok \/ ~pmap2.ok THEN Panicked
        ELSE IF kind = "MapOceanMix"
        THEN IF Area(pmap1.x, pmap1.z, pmap1.w, pmap1.h)
                  # LandArea(Area(pmap2.x, pmap2.z, pmap2.w, pmap2.h))
             THEN Panicked
             ELSE pmap2
        ELSE IF pmap1 # pmap2 THEN Panicked
        ELSE Crop(kind, area, AreaFromPmap(kind, pmap1))
  IN  IF kind \in SourceLayers
      THEN MapArea(area.x, area.z, area.w, area.h)
      ELSE IF kind \in TwoParentLayers
      THEN CHOOSE m \in UNION
             {{Mix(pmap1, pmap2) :
                 pmap1 \in {get_map(gen, gen[g].p1, parea1)},
                 pmap2 \in {get_map(gen, gen[g].p2, parea2)}} :
                parea1 \in {IF kind = "MapOceanMix" THEN LandArea(area)
                            ELSE ParentArea(kind, area)},
                parea2 \in {ParentArea(kind, area)}} : TRUE
      ELSE CHOOSE m \in UNION
             {{Crop(kind, area, AreaFromPmap(kind, pmap)) :
                 pmap \in {get_map(gen, gen[g].p1, parea)}} :
                parea \in {ParentArea(kind, area)}} : TRUE

\* generate_up_to_layer
generate_up_to_layer(version, area, layer) ==
  get_map(generator(version), generator_up_to_layer(version, layer), area)

\* generate
generate(version, area) == generate_up_to_layer(version, area, num_layers(version))

\* generate_fragment_treasure_map: there is no treasure map in 1.7
generate_fragment_treasure_map(version, area) ==
  IF version = "Java1_7" THEN Panicked
  ELSE get_map(treasure_generator(version), "mt", area)

(***************************************************************************)
(* The layers as called by their users: each call is one step.             *)
(***************************************************************************)
\* Largest |x|, |z| of the origin of a requested area
MaxCoord == 2

\* Largest width and height of a requested area
MaxSize == 4

Areas ==
  {Area(x, z, w, h) : x \in -MaxCoord..MaxCoord, z \in -MaxCoord..MaxCoord,
                      w \in 0..MaxSize, h \in 0..MaxSize}

\* The layers the test preserve_area calls over a constant parent
PreserveAreaLayers == {"MapIsland", "MapZoom", "MapAddIsland", "MapVoronoiZoom"}

Generate(version, area) ==
  /\ call = "none"
  /\ call' = "generate"
  /\ arg' = [version |-> version, area |-> area]
  /\ ret' = generate(version, area)
  /\ UNCHANGED rngVars

LayerGetMap(kind, area) ==
  /\ call = "none"
  /\ call' = "get_map"
  /\ arg' = [kind |-> kind, area |-> area]
  /\ ret' = get_map(test_generator(kind), "gen", area)
  /\ UNCHANGED rngVars

GenerateFragmentTreasureMap(version, area) ==
  /\ call = "none"
  /\ call' = "generate_fragment_treasure_map"
  /\ arg' = [version |-> version, area |-> area]
  /\ ret' = generate_fragment_treasure_map(version, area)
  /\ UNCHANGED rngVars

AreaNext ==
  \/ \E version \in MinecraftVersion, area \in Areas : Generate(version, area)
  \/ \E kind \in PreserveAreaLayers \cup {"MapHalfVoronoiZoom"}, area \in Areas :
       LayerGetMap(kind, area)
  \/ \E version \in MinecraftVersion, area \in Areas :
       GenerateFragmentTreasureMap(version, area)

\* No JavaRng is in use
RngIdle ==
  /\ seed = Zero64 /\ pc = "idle" /\ rngSteps = 0
  /\ rngOp = [name |-> "new", n |-> Zero64, m |-> 0, before |-> Zero64, ret |-> 0]

AreaInit == FnIdle /\ RngIdle

SpecArea == AreaInit /\ [][AreaNext]_vars

\* C1: generate(version, area, seed) returns, for each of the four versions and
\* every area (zero-sized, negative or odd origin included), a map whose origin is
\* (area.x, area.z) and whose extents are (area.w, area.h); so does get_map of
\* MapIsland, and of MapZoom, MapAddIsland and MapVoronoiZoom over a constant
\* parent.
C1_GeneratePreservesArea ==
  \/ call = "generate"
  \/ call = "get_map" /\ arg.kind \in PreserveAreaLayers
  => ret = MapArea(arg.area.x, arg.area.z, arg.area.w, arg.area.h)

C1_Witness ==
  /\ call = "generate"
  /\ arg = [version |-> "Java1_15", area |-> Area(-1, 2, 3, 0)]
  /\ ret = MapArea(-1, 2, 3, 0)

\* C3: MapHalfVoronoiZoom.get_map(area) returns a map whose origin is
\* (area.x, area.z) and whose extents are (area.w, area.h), and so does
\* generate_fragment_treasure_map(version, area, seed) in the versions that have
\* treasure maps.
C3_HalfVoronoiCropsToArea ==
  \/ call = "get_map" /\ arg.kind = "MapHalfVoronoiZoom"
  \/ call = "generate_fragment_treasure_map" /\ arg.version # "Java1_7"
  => ret = MapArea(arg.area.x, arg.area.z, arg.area.w, arg.area.h)

(***************************************************************************)
(* src/src/biome_layers.rs: maps with their cells, and the inverse layers. *)
(* A map is its origin (x, z) and the array a of w x h cells, indexed from *)
(* (0, 0).                                                                 *)
(***************************************************************************)
\* biome_id::river
river == 7

\* The indices of an array of w x h cells
Cells(w, h) == (0..(w - 1)) \X (0..(h - 1))

\* A map with origin (x, z) and the cells a, an array over Cells(w, h)
MapOf(x, z, w, h, a) ==
  [ok |-> TRUE, x |-> x, z |-> z, w |-> w, h |-> h, a |-> a]

\* Err(()): no map is returned
Err == [ok |-> FALSE, x |-> 0, z |-> 0, w |-> 0, h |-> 0, a |-> <<>>]

\* Area::contains
contains(area, x, z) ==
  x >= area.x /\ x < area.x + area.w /\ z >= area.z /\ z < area.z + area.h

\* Map::get: the value at the world coordinate (real_x, real_z)
get(m, real_x, real_z) == m.a[<<real_x - m.x, real_z - m.z>>]

\* The smallest and the largest member of a non-empty set of integers
Min(S) == CHOOSE v \in S : \A u \in S : v <= u

Max(S) == CHOOSE v \in S : \A u \in S : v >= u

\* Area::from_coords: the smallest area that holds all the points of the list c
from_coords(c) ==
  IF c = <<>> THEN Area(0, 0, 0, 0)
  ELSE LET xs == {c[i][1] : i \in DOMAIN c}
           zs == {c[i][2] : i \in DOMAIN c}
       IN  Area(Min(xs), Min(zs), Max(xs) - Min(xs) + 1, Max(zs) - Min(zs) + 1)

\* map_with_river_at: river at the points of c, 0 elsewhere
map_with_river_at(c, area) ==
  LET at(i, j) ==
        IF \E k \in DOMAIN c : c[k] = <<area.x + i, area.z + j>> THEN river ELSE 0
  IN  MapOf(area.x, area.z, area.w, area.h,
            [ij \in Cells(area.w, area.h) |-> at(ij[1], ij[2])])

\* i64 division, which rounds towards zero
Div(a, b) == IF a >= 0 THEN a \div b ELSE -((-a) \div b)

\* next_multiple_of_4: (x + 3) & !0x03
next_multiple_of_4(x) == ((x + 3) \div 4) * 4

\* reverse_map_zoom
reverse_map_zoom(m) ==
  CHOOSE pmap \in
    {MapOf(m0.x \div 2, m0.z \div 2, m0.w \div 2, m0.h \div 2,
           [c \in Cells(m0.w \div 2, m0.h \div 2) |->
              m0.a[<<(m0.x % 2) + 2 * c[1], (m0.z % 2) + 2 * c[2]>>]]) :
       m0 \in {m}} : pmap = pmap

\* reverse_map_voronoi_zoom with maps of 4 cells refused as well
reverse_map_voronoi_zoom_min5(m) ==
  IF m.w < 5 \/ m.h < 5 THEN Err
  ELSE LET nx == next_multiple_of_4(m.x - 2) + 2
           nz == next_multiple_of_4(m.z - 2) + 2
           adj_x == nx - m.x
           adj_z == nz - m.z
           p_w == ((m.w - adj_x) + 3) \div 4
           p_h == ((m.h - adj_z) + 3) \div 4
           at(i, j) == m.a[<<adj_x + 4 * i, adj_z + 4 * j>>]
       IN  IF p_w = 0 \/ p_h = 0 THEN Err
           ELSE MapOf(Div(nx - 2, 4), Div(nz - 2, 4), p_w, p_h,
            [ij \in Cells(p_w, p_h) |-> at(ij[1], ij[2])])

\* reverse_map_voronoi_zoom with the cells read without the adjustment
reverse_map_voronoi_zoom_noadj(m) ==
  IF m.w < 4 \/ m.h < 4 THEN Err
  ELSE LET nx == next_multiple_of_4(m.x - 2) + 2
           nz == next_multiple_of_4(m.z - 2) + 2
           adj_x == nx - m.x
           adj_z == nz - m.z
           p_w == ((m.w - adj_x) + 3) \div 4
           p_h == ((m.h - adj_z) + 3) \div 4
           at(i, j) == m.a[<<4 * i, 4 * j>>]
       IN  IF p_w = 0 \/ p_h = 0 THEN Err
           ELSE MapOf(Div(nx - 2, 4), Div(nz - 2, 4), p_w, p_h,
            [ij \in Cells(p_w, p_h) |-> at(ij[1], ij[2])])

\* reverse_map_voronoi_zoom
reverse_map_voronoi_zoom(m) ==
  IF m.w < 4 \/ m.h < 4 THEN Err
  ELSE LET nx == next_multiple_of_4(m.x - 2) + 2
           nz == next_multiple_of_4(m.z - 2) + 2
           adj_x == nx - m.x
           adj_z == nz - m.z
           p_w == ((m.w - adj_x) + 3) \div 4
           p_h == ((m.h - adj_z) + 3) \div 4
           at(i, j) == m.a[<<adj_x + 4 * i, adj_z + 4 * j>>]
       IN  IF p_w = 0 \/ p_h = 0 THEN Err
           ELSE MapOf(Div(nx - 2, 4), Div(nz - 2, 4), p_w, p_h,
            [ij \in Cells(p_w, p_h) |-> at(ij[1], ij[2])])

(***************************************************************************)
(* reverse_map_voronoi_zoom called on observed maps                        *)
(***************************************************************************)
\* Largest |x|, |z| of the origin of an observed map
MaxRevCoord == 4

\* Largest width and height of an observed map
MaxRevSize == 6

\* A value that tells the world coordinates of a cell apart from its neighbours'
Mark(x, z) == 100 + (x % 16) * 16 + (z % 16)

\* Observed maps: all river, or every cell marked with its world coordinates
ObservedMaps ==
  UNION {{MapOf(x, z, w, h, [c \in Cells(w, h) |-> river]),
          MapOf(x, z, w, h, [c \in Cells(w, h) |-> Mark(x + c[1], z + c[2])])} :
           x \in -MaxRevCoord..MaxRevCoord, z \in -MaxRevCoord..MaxRevCoord,
           w \in 0..MaxRevSize, h \in 0..MaxRevSize}

\* The point lists of the test reverse_voronoi_small_map: the first k points
SmallMapCoords ==
  LET c == <<<<1, 1>>, <<1, 2>>, <<1, 3>>, <<1, 4>>, <<2, 1>>, <<3, 1>>, <<4, 1>>>>
  IN  {SubSeq(c, 1, k) : k \in 0..7}

ReverseMapVoronoiZoom(m) ==
  /\ call = "none"
  /\ call' = "reverse_map_voronoi_zoom"
  /\ arg' = [m |-> m]
  /\ ret' = reverse_map_voronoi_zoom(m)
  /\ UNCHANGED rngVars

RevNext ==
  \/ \E m \in ObservedMaps : ReverseMapVoronoiZoom(m)
  \/ \E c \in SmallMapCoords :
       ReverseMapVoronoiZoom(map_with_river_at(c, from_coords(c)))

RevInit == FnIdle /\ RngIdle

SpecRev == RevInit /\ [][RevNext]_vars

\* C5: reverse_map_voronoi_zoom(m) returns the error result exactly when m is
\* narrower than 4 cells or shorter than 4 cells (the 0x0 map of an empty point
\* list included); for a map of at least 4x4, whatever its origin, it returns a
\* map with at least one cell.
C5_ReverseVoronoiErrIffSmall ==
  call = "reverse_map_voronoi_zoom" =>
    /\ ~ret.ok <=> (arg.m.w < 4 \/ arg.m.h < 4)
    /\ ret.ok => ret.w >= 1 /\ ret.h >= 1 /\ DOMAIN ret.a = Cells(ret.w, ret.h)

\* A 4x4 map whose origin is one past the alignment: three columns are dropped
C5_Witness ==
  /\ call = "reverse_map_voronoi_zoom"
  /\ arg.m.x = -1 /\ arg.m.z = 3 /\ arg.m.w = 4 /\ arg.m.h = 4
  /\ ret.ok /\ ret.w = 1 /\ ret.h = 1

\* C6: for a map m of at least 4x4, whatever its origin, the cell of
\* reverse_map_voronoi_zoom(m) at parent coordinate (px, pz) holds the value of m
\* at world coordinate (4 px + 2, 4 pz + 2), and the result covers exactly the
\* parent coordinates whose world cell (4 px + 2, 4 pz + 2) lies inside m; a 4x4
\* map that is all river gives a 1x1 map of river.
C6_ReverseVoronoiDecimates ==
  call = "reverse_map_voronoi_zoom" /\ arg.m.w >= 4 /\ arg.m.h >= 4 =>
    LET m == arg.m
        inside(px, pz) == contains(Area(m.x, m.z, m.w, m.h), 4 * px + 2, 4 * pz + 2)
        around == ((m.x \div 4) - 2)..(((m.x + m.w) \div 4) + 2)
        aroundz == ((m.z \div 4) - 2)..(((m.z + m.h) \div 4) + 2)
    IN  /\ ret.ok
        /\ {<<ret.x + c[1], ret.z + c[2]>> : c \in DOMAIN ret.a}
             = {p \in around \X aroundz : inside(p[1], p[2])}
        /\ \A c \in DOMAIN ret.a :
             ret.a[c] = get(m, 4 * (ret.x + c[1]) + 2, 4 * (ret.z + c[2]) + 2)
        /\ (m.w = 4 /\ m.h = 4 /\ \A c \in DOMAIN m.a : m.a[c] = river)
             => ret.w = 1 /\ ret.h = 1 /\ ret.a[<<0, 0>>] = river

\* A 6x6 map at a negative, unaligned origin whose result has 2x2 distinct cells
C6_Witness ==
  /\ call = "reverse_map_voronoi_zoom"
  /\ arg.m.x = -3 /\ arg.m.z = -3 /\ arg.m.w = 6 /\ arg.m.h = 6
  /\ ret.ok /\ ret.w = 2 /\ ret.h = 2
  /\ ret.a[<<0, 0>>] = Mark(-2, -2) /\ ret.a[<<1, 1>>] = Mark(2, 2)

(***************************************************************************)
(* McRng, the generator the layers seed per cell.  Its file is not among   *)
(* the sources; it is modelled from spec.md section 4.1, and reproduces    *)
(* the maps the tests islands_match and zoom_island_match expect.          *)
(***************************************************************************)
\* 6364136223846793005
MC_MUL == <<3885, 2391, 3404, 3906, 2129, 5>>

\* 1442695040888963407
MC_ADD == <<335, 1656, 3831, 1975, 1029, 1>>

\* An i64 of small magnitude as a u64 (two's complement)
FromInt(x) == IF x >= 0 THEN FromNat(x) ELSE WrappingSub(Zero64, FromNat(-x))

\* mix(s, v) = s * (s * 6364136223846793005 + 1442695040888963407) + v.
\* (Here and below an argument that is read several times is bound as the
\* member of a one-element set, so that TLC evaluates it once; a map is
\* chosen with "map = map", a comparison that makes TLC compute its cells once.)
mix(s, v) ==
  CHOOSE m \in
    {WrappingAdd(WrappingMul(s0, WrappingAdd(WrappingMul(s0, MC_MUL), MC_ADD)), v) :
       s0 \in {s}} : TRUE

\* Three rounds of mix with the same addend
mix3(s, v) == mix(mix(mix(s, v), v), v)

\* McRng::default
McRngDefault == [base_seed |-> Zero64, world_seed |-> Zero64, chunk_seed |-> Zero64]

\* McRng::set_base_seed
set_base_seed(r, base_seed) == [r EXCEPT !.base_seed = mix3(base_seed, base_seed)]

\* McRng::set_world_seed
set_world_seed(r, world_seed) ==
  CHOOSE r1 \in {[r0 EXCEPT !.world_seed = mix3(world_seed, r0.base_seed)] :
                   r0 \in {r}} : TRUE

\* McRng::new
McRngNew(base_seed, world_seed) ==
  set_world_seed(set_base_seed(McRngDefault, base_seed), world_seed)

\* McRng::set_chunk_seed with the coordinates mixed in once each
set_chunk_seed_once(r, x, z) ==
  CHOOSE r1 \in
    {[r0 EXCEPT !.chunk_seed = mix(mix(r0.world_seed, FromInt(x)), FromInt(z))] :
       r0 \in {r}} : TRUE

\* McRng::set_chunk_seed
set_chunk_seed(r, x, z) ==
  CHOOSE r1 \in
    {[r0 EXCEPT !.chunk_seed =
        mix(mix(mix(mix(r0.world_seed, FromInt(x)), FromInt(z)), FromInt(x)),
            FromInt(z))] : r0 \in {r}} : TRUE

\* McRng::next_int_n: the value returned, (chunk_seed >> 24) mod n made
\* non-negative.  chunk_seed >> 24 is the signed 40-bit number of limbs 3..6.
mc_next_int_n(r, n) ==
  CHOOSE k \in
    {LET high == ((((s[6] % n) * W + s[5]) % n) * W + s[4]) % n
         unsigned == (high * W + s[3]) % n
         \* 2^40 mod n
         wrap == ((((Pow2(16) % n) * W) % n) * W) % n
     IN  IF s[6] >= 8 THEN (unsigned + n - wrap) % n ELSE unsigned :
       s \in {r.chunk_seed}} : TRUE

\* McRng::next_int_n: the generator after the call
mc_step(r) ==
  CHOOSE r1 \in {[r0 EXCEPT !.chunk_seed = mix(r0.chunk_seed, r0.world_seed)] :
                   r0 \in {r}} : TRUE

\* McRng::choose2
choose2(r, a, b) == IF mc_next_int_n(r, 2) = 0 THEN a ELSE b

\* McRng::choose4
choose4(r, a, b, c, d) ==
  LET k == mc_next_int_n(r, 4)
  IN  IF k = 0 THEN a ELSE IF k = 1 THEN b ELSE IF k = 2 THEN c ELSE d

\* McRng::select_mode_or_random: the majority when three of the four are equal,
\* a uniform choice otherwise
select_mode_or_random(r, a, a1, b, b1) ==
  IF a1 = b /\ b = b1 THEN a1
  ELSE IF a = a1 /\ a = b THEN a
  ELSE IF a = a1 /\ a = b1 THEN a
  ELSE IF a = b /\ a = b1 THEN a
  ELSE choose4(r, a, a1, b, b1)

(***************************************************************************)
(* src/src/biome_layers.rs: the first layers of the generators, with their *)
(* cells                                                                   *)
(***************************************************************************)
\* slice_collapse that moves the origin and keeps the cells where they were
slice_collapse_unmoved(m, nx, nz, area) ==
  CHOOSE map \in
    {MapOf(m0.x + nx, m0.z + nz, area.w, area.h,
           [c \in Cells(area.w, area.h) |-> m0.a[c]]) : m0 \in {m}} : map = map

\* map.x += nx; map.z += nz; map.a.slice_collapse(s![nx..nx + w, nz..nz + h])
slice_collapse(m, nx, nz, area) ==
  CHOOSE map \in
    {MapOf(m0.x + nx, m0.z + nz, area.w, area.h,
           [c \in Cells(area.w, area.h) |-> m0.a[<<nx + c[1], nz + c[2]>>]]) :
       m0 \in {m}} : map = map

\* MapIsland::get_map: one cell in ten is land, and (0, 0) is land
MapIsland_get_map(base_seed, world_seed, area) ==
  CHOOSE map \in
    {MapOf(area.x, area.z, area.w, area.h,
           [c \in Cells(area.w, area.h) |->
              IF /\ area.x > -area.w /\ area.x <= 0 /\ area.z > -area.h /\ area.z <= 0
                 /\ c[1] = -area.x /\ c[2] = -area.z
              THEN 1
              ELSE IF mc_next_int_n(set_chunk_seed(r, area.x + c[1], area.z + c[2]), 10) = 0
              THEN 1 ELSE 0]) :
       r \in {McRngNew(FromNat(base_seed), world_seed)}} : map = map

\* MapZoom with the first cell of a block drawn like the second
ZoomCell_drawn(r, fuzzy, chunk_x, chunk_z, i, j, a, a1, b, b1) ==
  IF a = a1 /\ a = b /\ a = b1 THEN a
  ELSE IF i = 0
  THEN choose2(set_chunk_seed(r, chunk_x, chunk_z), a, b)
  ELSE IF j = 0
  THEN choose2(mc_step(set_chunk_seed(r, chunk_x, chunk_z)), a, a1)
  ELSE IF fuzzy
  THEN choose4(mc_step(mc_step(set_chunk_seed(r, chunk_x, chunk_z))), a, a1, b, b1)
  ELSE select_mode_or_random(mc_step(mc_step(set_chunk_seed(r, chunk_x, chunk_z))),
                             a, a1, b, b1)

\* MapZoom with the two drawn cells of the border exchanged: a_or_b written at
\* (1, 0) and a_or_a1 at (0, 1)
ZoomCell_swapped(r, fuzzy, chunk_x, chunk_z, i, j, a, a1, b, b1) ==
  IF a = a1 /\ a = b /\ a = b1 THEN a
  ELSE IF i = 0 /\ j = 0 THEN a
  ELSE IF j = 0
  THEN choose2(set_chunk_seed(r, chunk_x, chunk_z), a, b)
  ELSE IF i = 0
  THEN choose2(mc_step(set_chunk_seed(r, chunk_x, chunk_z)), a, a1)
  ELSE IF fuzzy
  THEN choose4(mc_step(mc_step(set_chunk_seed(r, chunk_x, chunk_z))), a, a1, b, b1)
  ELSE select_mode_or_random(mc_step(mc_step(set_chunk_seed(r, chunk_x, chunk_z))),
                             a, a1, b, b1)

\* The cell (i, j) of the 2x2 block MapZoom writes for the parent cells a, a1,
\* b, b1 at block origin (chunk_x, chunk_z): a, then a_or_b after the first
\* draw, a_or_a1 after the second, and the fourth cell after the third
ZoomCell(r, fuzzy, chunk_x, chunk_z, i, j, a, a1, b, b1) ==
  IF a = a1 /\ a = b /\ a = b1 THEN a
  ELSE IF i = 0 /\ j = 0 THEN a
  ELSE IF i = 0
  THEN choose2(set_chunk_seed(r, chunk_x, chunk_z), a, b)
  ELSE IF j = 0
  THEN choose2(mc_step(set_chunk_seed(r, chunk_x, chunk_z)), a, a1)
  ELSE IF fuzzy
  THEN choose4(mc_step(mc_step(set_chunk_seed(r, chunk_x, chunk_z))), a, a1, b, b1)
  ELSE select_mode_or_random(mc_step(mc_step(set_chunk_seed(r, chunk_x, chunk_z))),
                             a, a1, b, b1)

\* The generator of a MapZoom layer with set_world_seed called whatever the
\* flag is
ZoomRng_world_seed_set(base_seed, world_seed, bug) ==
  McRngNew(FromNat(base_seed), world_seed)

\* The generator of a MapZoom layer as get_map_from_pmap sets it up:
\* set_world_seed is skipped with bug_world_seed_not_set
ZoomRng(base_seed, world_seed, bug) ==
  IF bug THEN set_base_seed(McRngDefault, FromNat(base_seed))
  ELSE McRngNew(FromNat(base_seed), world_seed)

\* MapZoom::get_map_from_pmap
MapZoom_get_map_from_pmap(base_seed, world_seed, fuzzy, bug, pmap) ==
  CHOOSE map \in
    {MapOf(p.x * 2, p.z * 2, (p.w - 1) * 2, (p.h - 1) * 2,
           [c \in Cells((p.w - 1) * 2, (p.h - 1) * 2) |->
              ZoomCell(r, fuzzy,
                       (c[1] \div 2 + p.x) * 2, (c[2] \div 2 + p.z) * 2,
                       c[1] % 2, c[2] % 2,
                       p.a[<<c[1] \div 2, c[2] \div 2>>],
                       p.a[<<c[1] \div 2 + 1, c[2] \div 2>>],
                       p.a[<<c[1] \div 2, c[2] \div 2 + 1>>],
                       p.a[<<c[1] \div 2 + 1, c[2] \div 2 + 1>>])]) :
       p \in {pmap},
       r \in {ZoomRng(base_seed, world_seed, bug)}} : map = map

\* MapZoom::get_map, pmap being the map of the parent for
\* ParentArea("MapZoom", area)
MapZoom_get_map(base_seed, world_seed, fuzzy, bug, pmap, area) ==
  slice_collapse(MapZoom_get_map_from_pmap(base_seed, world_seed, fuzzy, bug, pmap),
                 area.x % 2, area.z % 2, area)

\* One corner of MapAddIsland: a corner that is land is taken with chance 1/inc
AddIslandCorner(s, corner) ==
  IF corner = 0 THEN s
  ELSE CHOOSE s1 \in
         {[r |-> mc_step(s0.r), inc |-> s0.inc + 1,
           v |-> IF mc_next_int_n(s0.r, s0.inc) = 0 THEN corner ELSE s0.v] :
            s0 \in {s}} : TRUE

\* MapAddIsland::get_map_from_pmap: the cell whose 3x3 parent cells have the
\* corners v00, v20, v02, v22 and the centre v11, at world (chunk_x, chunk_z)
AddIslandCell(r, chunk_x, chunk_z, v00, v20, v02, v22, v11) ==
  IF v11 = 0 /\ (v00 # 0 \/ v20 # 0 \/ v02 # 0 \/ v22 # 0)
  THEN CHOOSE v \in
         {IF mc_next_int_n(s.r, 3) = 0 THEN s.v ELSE IF s.v = 4 THEN 4 ELSE 0 :
            s \in {AddIslandCorner(AddIslandCorner(AddIslandCorner(AddIslandCorner(
                     [r |-> set_chunk_seed(r, chunk_x, chunk_z), inc |-> 1, v |-> 1],
                     v00), v20), v02), v22)}} : TRUE
  ELSE IF v11 > 0 /\ (v00 = 0 \/ v20 = 0 \/ v02 = 0 \/ v22 = 0)
  THEN IF mc_next_int_n(set_chunk_seed(r, chunk_x, chunk_z), 5) = 0
       THEN (IF v11 = 4 THEN 4 ELSE 0)
       ELSE v11
  ELSE v11

\* MapAddIsland::get_map_from_pmap
MapAddIsland_get_map_from_pmap(base_seed, world_seed, pmap) ==
  CHOOSE map \in
    {MapOf(p.x + 1, p.z + 1, p.w - 2, p.h - 2,
           [c \in Cells(p.w - 2, p.h - 2) |->
              AddIslandCell(r, p.x + 1 + c[1], p.z + 1 + c[2],
                            p.a[c], p.a[<<c[1] + 2, c[2]>>], p.a[<<c[1], c[2] + 2>>],
                            p.a[<<c[1] + 2, c[2] + 2>>], p.a[<<c[1] + 1, c[2] + 1>>])]) :
       p \in {pmap}, r \in {McRngNew(FromNat(base_seed), world_seed)}} : map = map

\* MapAddIsland::get_map, pmap being the map of the parent for
\* ParentArea("MapAddIsland", area)
MapAddIsland_get_map(base_seed, world_seed, pmap, area) ==
  MapAddIsland_get_map_from_pmap(base_seed, world_seed, pmap)

\* A point of MapVoronoiZoom: the two draws of the parent cell at the world
\* coordinate (chunk_x, chunk_z), each (n / 1024 - 0.5) * 3.6, here times 2560
VoronoiPoint(r0, chunk_x, chunk_z) ==
  CHOOSE p \in
    {<<(mc_next_int_n(r, 1024) - 512) * 9, (mc_next_int_n(mc_step(r), 1024) - 512) * 9>> :
       r \in {set_chunk_seed(r0, chunk_x, chunk_z)}} : TRUE

\* The squared distance from the cell (i, j) of a block to the point p moved by
\* (ox, oz) cells, times 2560 * 2560
VoronoiDistance(p, ox, oz, i, j) ==
  (j * 2560 - (p[2] + oz * 2560)) * (j * 2560 - (p[2] + oz * 2560))
  + (i * 2560 - (p[1] + ox * 2560)) * (i * 2560 - (p[1] + ox * 2560))

\* The value MapVoronoiZoom writes to the cell (i, j) of a block: that of the
\* nearest of the four points
VoronoiCell(p00, p10, p01, p11, i, j, v00, v10, v01, v11) ==
  CHOOSE v \in
    {IF da < db /\ da < dc /\ da < dd THEN v00
     ELSE IF db < da /\ db < dc /\ db < dd THEN v10
     ELSE IF dc < da /\ dc < db /\ dc < dd THEN v01
     ELSE v11 :
       da \in {VoronoiDistance(p00, 0, 0, i, j)},
       db \in {VoronoiDistance(p10, 4, 0, i, j)},
       dc \in {VoronoiDistance(p01, 0, 4, i, j)},
       dd \in {VoronoiDistance(p11, 4, 4, i, j)}} : TRUE

\* The points of MapVoronoiZoom for the cells of the parent map p
VoronoiPoints(r, p) ==
  CHOOSE point \in
    {[c \in Cells(p.w, p.h) |-> VoronoiPoint(r, (c[1] + p.x) * 4, (c[2] + p.z) * 4)]} :
      point = point

\* The map MapVoronoiZoom builds from the parent map p and its points
VoronoiMap(p, points) ==
  CHOOSE map \in
    {MapOf(p.x * 4 + 2, p.z * 4 + 2, (p.w - 1) * 4, (p.h - 1) * 4,
           [c \in Cells((p.w - 1) * 4, (p.h - 1) * 4) |->
              IF /\ p.a[<<c[1] \div 4, c[2] \div 4>>] = p.a[<<c[1] \div 4, c[2] \div 4 + 1>>]
                 /\ p.a[<<c[1] \div 4, c[2] \div 4>>] = p.a[<<c[1] \div 4 + 1, c[2] \div 4>>]
                 /\ p.a[<<c[1] \div 4, c[2] \div 4>>] = p.a[<<c[1] \div 4 + 1, c[2] \div 4 + 1>>]
              THEN p.a[<<c[1] \div 4, c[2] \div 4>>]
              ELSE VoronoiCell(point[<<c[1] \div 4, c[2] \div 4>>],
                               point[<<c[1] \div 4 + 1, c[2] \div 4>>],
                               point[<<c[1] \div 4, c[2] \div 4 + 1>>],
                               point[<<c[1] \div 4 + 1, c[2] \div 4 + 1>>],
                               c[1] % 4, c[2] % 4,
                               p.a[<<c[1] \div 4, c[2] \div 4>>],
                               p.a[<<c[1] \div 4 + 1, c[2] \div 4>>],
                               p.a[<<c[1] \div 4, c[2] \div 4 + 1>>],
                               p.a[<<c[1] \div 4 + 1, c[2] \div 4 + 1>>])]) :
       point \in {points}} : map = map

\* MapVoronoiZoom::get_map_from_pmap
MapVoronoiZoom_get_map_from_pmap(base_seed, world_seed, pmap) ==
  CHOOSE map \in
    {VoronoiMap(p, VoronoiPoints(r, p)) :
       p \in {pmap}, r \in {McRngNew(FromNat(base_seed), world_seed)}} : map = map

\* MapVoronoiZoom::get_map, pmap being the map of the parent for
\* ParentArea("MapVoronoiZoom", area)
MapVoronoiZoom_get_map(base_seed, world_seed, pmap, area) ==
  slice_collapse(MapVoronoiZoom_get_map_from_pmap(base_seed, world_seed, pmap),
                 (area.x - 2) % 4, (area.z - 2) % 4, area)

\* TestMapCheckers::get_map
TestMapCheckers_get_map(area) ==
  MapOf(area.x, area.z, area.w, area.h,
        [c \in Cells(area.w, area.h) |->
           ((area.z + c[2]) % 4) * 4 + ((area.x + c[1]) % 4)])

(***************************************************************************)
(* The test rev_map_zoom: reverse_map_zoom of a zoomed map                 *)
(***************************************************************************)
\* Largest |x|, |z| of the origin of a parent map
MaxZoomCoord == 1

\* Largest width and height of a parent map
MaxZoomSize == 3

\* The world seed of the tests, 9223090561890311698
TestWorldSeed == <<3602, 2989, 0, 0, 4095, 7>>

WorldSeeds == {Zero64, TestWorldSeed}

\* Parent maps: TestMapXhz (all cells differ), TestMapZero (all cells equal),
\* TestMapCheckers, and columns of equal cells
ParentMaps ==
  UNION {{MapOf(x, z, w, h, [c \in Cells(w, h) |-> (x + c[1]) * h + (z + c[2])]),
          MapOf(x, z, w, h, [c \in Cells(w, h) |-> 0]),
          MapOf(x, z, w, h, [c \in Cells(w, h) |->
                               ((z + c[2]) % 4) * 4 + ((x + c[1]) % 4)]),
          MapOf(x, z, w, h, [c \in Cells(w, h) |-> (x + c[1]) % 2])} :
           x \in -MaxZoomCoord..MaxZoomCoord, z \in -MaxZoomCoord..MaxZoomCoord,
           w \in 2..MaxZoomSize, h \in 2..MaxZoomSize}

RevMapZoom(pmap, base_seed, world_seed, fuzzy, bug) ==
  /\ call = "none"
  /\ call' = "rev_map_zoom"
  /\ arg' = [pmap |-> pmap, base_seed |-> base_seed, world_seed |-> world_seed,
             fuzzy |-> fuzzy, bug_world_seed_not_set |-> bug]
  /\ ret' = LET b == MapZoom_get_map_from_pmap(base_seed, world_seed, fuzzy, bug, pmap)
            IN  [b |-> b, r |-> reverse_map_zoom(b)]
  /\ UNCHANGED rngVars

\* The test zoom_island_match: the fuzzy MapZoom(2000) over MapIsland(1) for the
\* area (-3, -2, 6, 4)
ZoomIslandMatch ==
  /\ call = "none"
  /\ call' = "zoom_island_match"
  /\ arg' = [pmap |-> MapIsland_get_map(1, TestWorldSeed, Area(-2, -1, 5, 4)),
             base_seed |-> 2000, world_seed |-> TestWorldSeed,
             fuzzy |-> TRUE, bug_world_seed_not_set |-> FALSE]
  /\ ret' = LET b == MapZoom_get_map_from_pmap(2000, TestWorldSeed, TRUE, FALSE,
                        MapIsland_get_map(1, TestWorldSeed, Area(-2, -1, 5, 4)))
            IN  [b |-> b, r |-> slice_collapse(b, 1, 0, Area(-3, -2, 6, 4))]
  /\ UNCHANGED rngVars

ZoomNext ==
  \/ /\ call = "none"
     /\ \E pmap \in ParentMaps, base_seed \in {10}, world_seed \in WorldSeeds,
           fuzzy \in BOOLEAN, bug \in BOOLEAN :
          RevMapZoom(pmap, base_seed, world_seed, fuzzy, bug)
  \/ ZoomIslandMatch

ZoomInit == FnIdle /\ RngIdle

SpecZoom == ZoomInit /\ [][ZoomNext]_vars

g0_get_map(world_seed, area) == MapIsland_get_map(1, world_seed, area)

g1_get_map(world_seed, area) ==
  MapZoom_get_map(2000, world_seed, TRUE, FALSE,
                  g0_get_map(world_seed, ParentArea("MapZoom", area)), area)

g2_get_map(world_seed, area) ==
  MapAddIsland_get_map(1, world_seed,
                       g1_get_map(world_seed, ParentArea("MapAddIsland", area)), area)

g3_get_map(world_seed, area) ==
  MapZoom_get_map(2001, world_seed, FALSE, FALSE,
                  g2_get_map(world_seed, ParentArea("MapZoom", area)), area)

\* generator_up_to_layer(world_seed, layer).get_map(area)
generator_get_map(world_seed, layer, area) ==
  IF layer = 0 THEN g0_get_map(world_seed, area)
  ELSE IF layer = 1 THEN g1_get_map(world_seed, area)
  ELSE IF layer = 2 THEN g2_get_map(world_seed, area)
  ELSE g3_get_map(world_seed, area)

\* Largest width and height of a requested area
MaxGenSize == 2

GenLayers == 0..3

GenAreas ==
  {Area(x, z, w, h) : x \in {-1, 0}, z \in {-1, 0},
                      w \in 0..MaxGenSize, h \in 0..MaxGenSize}

\* The maps of all requests: generate_up_to_layer keeps no state between calls
generate_up_to_layer_map ==
  [world_seed \in WorldSeeds, layer \in GenLayers, area \in GenAreas |->
     generator_get_map(world_seed, layer, area)]

\* The maps of MapVoronoiZoom(10, world_seed) over the parent TestMapCheckers
voronoi_checkers_map ==
  [world_seed \in WorldSeeds, area \in GenAreas |->
     MapVoronoiZoom_get_map(10, world_seed,
       TestMapCheckers_get_map(ParentArea("MapVoronoiZoom", area)), area)]

\* Two calls of generate_up_to_layer(version, area, world_seed, num_layers)
GenerateUpToLayer(version, world_seed, layer, a, b) ==
  /\ call = "none"
  /\ call' = "generate_up_to_layer"
  /\ arg' = [version |-> version, seed |-> world_seed, num_layers |-> layer,
             a |-> a, b |-> b]
  /\ ret' = <<generate_up_to_layer_map[world_seed, layer, a],
              generate_up_to_layer_map[world_seed, layer, b]>>
  /\ UNCHANGED rngVars

\* Two calls of MapVoronoiZoom::get_map
VoronoiGetMap(world_seed, a, b) ==
  /\ call = "none"
  /\ call' = "voronoi_get_map"
  /\ arg' = [version |-> "none", seed |-> world_seed, num_layers |-> 0, a |-> a, b |-> b]
  /\ ret' = <<voronoi_checkers_map[world_seed, a], voronoi_checkers_map[world_seed, b]>>
  /\ UNCHANGED rngVars

GenNext ==
  /\ call = "none"
  /\ \/ \E version \in MinecraftVersion, world_seed \in WorldSeeds, layer \in GenLayers,
           a \in GenAreas, b \in GenAreas :
          GenerateUpToLayer(version, world_seed, layer, a, b)
     \/ \E world_seed \in WorldSeeds, a \in GenAreas, b \in GenAreas :
          VoronoiGetMap(world_seed, a, b)

GenInit == FnIdle /\ RngIdle

SpecGen == GenInit /\ [][GenNext]_vars

SmoothCell(r, chunk_x, chunk_z, v11, v10, v21, v01, v12) ==
  IF v01 = v21 /\ v10 = v12
  THEN IF mc_next_int_n(set_chunk_seed(r, chunk_x, chunk_z), 2) = 0 THEN v01 ELSE v10
  ELSE IF v10 = v12 THEN v10
  ELSE IF v01 = v21 THEN v01
  ELSE v11

\* MapSmooth::get_map_from_pmap
MapSmooth_get_map_from_pmap(base_seed, world_seed, pmap) ==
  CHOOSE map \in
    {MapOf(p.x + 1, p.z + 1, p.w - 2, p.h - 2,
           [c \in Cells(p.w - 2, p.h - 2) |->
              SmoothCell(r, c[1] + p.x + 1, c[2] + p.z + 1,
                         p.a[<<c[1] + 1, c[2] + 1>>], p.a[<<c[1] + 1, c[2]>>],
                         p.a[<<c[1] + 2, c[2] + 1>>], p.a[<<c[1], c[2] + 1>>],
                         p.a[<<c[1] + 1, c[2] + 2>>])]) :
       p \in {pmap}, r \in {McRngNew(FromNat(base_seed), world_seed)}} : map = map

\* HelperMapRiverAll::get_map_from_pmap: river wherever a cell differs from one
\* of its four neighbours, -1 elsewhere
HelperMapRiverAll_get_map_from_pmap(pmap) ==
  CHOOSE map \in
    {IF p.w <= 2 \/ p.h <= 2 THEN Panicked
     ELSE MapOf(p.x + 1, p.z + 1, p.w - 2, p.h - 2,
                [c \in Cells(p.w - 2, p.h - 2) |->
                   IF /\ p.a[<<c[1] + 1, c[2] + 1>>] = p.a[<<c[1], c[2] + 1>>]
                      /\ p.a[<<c[1] + 1, c[2] + 1>>] = p.a[<<c[1] + 1, c[2]>>]
                      /\ p.a[<<c[1] + 1, c[2] + 1>>] = p.a[<<c[1] + 2, c[2] + 1>>]
                      /\ p.a[<<c[1] + 1, c[2] + 1>>] = p.a[<<c[1] + 1, c[2] + 2>>]
                   THEN -1 ELSE river]) :
       p \in {pmap}} : map = map

\* g34 .. g41 of candidate_river_map_generator, each called with get_map(area)
g34_get_map(world_seed, area) ==
  MapZoom_get_map(1000, world_seed, FALSE, FALSE,
                  TestMapCheckers_get_map(ParentArea("MapZoom", area)), area)

g35_get_map(world_seed, area) ==
  MapZoom_get_map(1001, world_seed, FALSE, FALSE,
                  g34_get_map(world_seed, ParentArea("MapZoom", area)), area)

g36_get_map(world_seed, area) ==
  MapZoom_get_map(1000, world_seed, FALSE, FALSE,
                  g35_get_map(world_seed, ParentArea("MapZoom", area)), area)

g37_get_map(world_seed, area) ==
  MapZoom_get_map(1001, world_seed, FALSE, FALSE,
                  g36_get_map(world_seed, ParentArea("MapZoom", area)), area)

g38_get_map(world_seed, area) ==
  MapZoom_get_map(1002, world_seed, FALSE, FALSE,
                  g37_get_map(world_seed, ParentArea("MapZoom", area)), area)

g39_get_map(world_seed, area) ==
  MapZoom_get_map(1003, world_seed, FALSE, FALSE,
                  g38_get_map(world_seed, ParentArea("MapZoom", area)), area)

g40_get_map(world_seed, area) ==
  HelperMapRiverAll_get_map_from_pmap(
    g39_get_map(world_seed, Area(area.x - 1, area.z - 1, area.w + 2, area.h + 2)))

g41_get_map(world_seed, area) ==
  MapSmooth_get_map_from_pmap(1000, world_seed,
    g40_get_map(world_seed, ParentArea("MapSmooth", area)))

\* candidate_river_map
candidate_river_map(a, world_seed) == g41_get_map(world_seed, a)

(***************************************************************************)
(* src/src/biome_layers.rs: river_seed_finder_26_range.  McRng's           *)
(* similar_biome_seed and similar_biome_seed_iterator_bits are in          *)
(* mc_rng.rs: similar_biome_seed(s) is the other seed s' with              *)
(* mix(s', v) = mix(s, v), and the iterator is taken to yield 0, 1, 2, ... *)
(***************************************************************************)
\* -MC_ADD / MC_MUL on u64, which is -7379792620528906219
SIMILAR_SUM == <<21, 1333, 1569, 2907, 2453, 9>>

\* McRng::similar_biome_seed
similar_biome_seed(world_seed) == WrappingSub(SIMILAR_SUM, world_seed)

\* McRng::similar_biome_seed_iterator_bits(25).skip(i).next()
similar_biome_seed_iterator_bits_25(i) == FromNat(i)

\* x & ((1 << 26) - 1)
Low26(a) == <<a[1], a[2], a[3] % 4, 0, 0, 0>>

\* 1 << 25
Bit25 == <<0, 0, 2, 0, 0, 0>>

\* Map::area
Map_area(m) == Area(m.x, m.z, m.w, m.h)

\* count_rivers
count_rivers(m) == Cardinality({c \in Cells(m.w, m.h) : m.a[c] = river})

\* count_rivers_and: the cells that are river in b and in a; -1 stands for the
\* panic of assert_eq!(a.area(), b.area())
count_rivers_and(a, b) ==
  IF ~(a.ok /\ Map_area(a) = Map_area(b)) THEN -1
  ELSE Cardinality({c \in Cells(b.w, b.h) : b.a[c] = river /\ a.a[c] = b.a[c]})

\* frag_size of split_rivers_into_fragments
frag_size == 64

\* The points of the list that fall in the bucket (frag_x, frag_z), in order
FragmentPoints(points, frag_x, frag_z) ==
  CHOOSE ps \in
    {[n \in 1..Cardinality(ks) |->
        points[CHOOSE k \in ks : Cardinality({l \in ks : l < k}) = n - 1]] :
       ks \in {{k \in DOMAIN points :
                  /\ Div(points[k][1], frag_size) = frag_x
                  /\ Div(points[k][2], frag_size) = frag_z}}} : ps = ps

\* The map of one bucket: map_with_river_at(ps, Area::from_coords(ps))
FragmentMap(ps) ==
  CHOOSE map \in {map_with_river_at(ps0, from_coords(ps0)) : ps0 \in {ps}} : map = map

\* split_rivers_into_fragments: one map for each bucket of 64x64.  h.values()
\* yields the buckets in an order that changes from one HashMap to the next,
\* so the result is the set of the maps, which the Vec holds in any order
split_rivers_into_fragments(points) ==
  UNION {{FragmentMap(FragmentPoints(p, key[1], key[2])) :
            key \in {<<Div(p[k][1], frag_size), Div(p[k][2], frag_size)>> :
                       k \in DOMAIN p}} :
         p \in {points}}

\* target_maps_derived before the sort: the fragments reverse_map_voronoi_zoom
\* accepts, each with its count of rivers
target_maps_derived(points) ==
  {[map |-> x, rivers |-> count_rivers(x)] :
     x \in {reverse_map_voronoi_zoom(f) : f \in split_rivers_into_fragments(points)}
             \ {Err}}

\* sort_unstable_by_key(!rivers) and truncate(10): the maps that can be kept.
\* A map with more rivers is kept before one with fewer; among maps with the
\* same count the sort keeps whichever the order of the Vec puts first
truncated(derived) ==
  UNION {{T \in SUBSET d :
            /\ Cardinality(T) = (IF Cardinality(d) < 10 THEN Cardinality(d) ELSE 10)
            /\ \A t \in T, u \in d \ T : t.rivers >= u.rivers} :
         d \in {derived}}

\* retain(rivers >= 10), as the sorted Vec; maps with the same count are
\* listed in a fixed order, which check0 and check1 do not depend on
RECURSIVE retained(_)
retained(T) ==
  IF \A t \in T : t.rivers < 10 THEN <<>>
  ELSE CHOOSE targets \in
         {<<first>> \o retained(T0 \ {first}) :
            T0 \in {T},
            first \in {CHOOSE t \in T : t.rivers >= 10 /\ \A u \in T : t.rivers >= u.rivers}} :
           TRUE

(***************************************************************************)
(* river_seed_finder_26_range called on [range_lo, range_hi), then on      *)
(* [range_lo, mid) and on [mid, range_hi), with the same river points      *)
(***************************************************************************)
\* Largest range_hi
MaxRange == 2

\* Boxes <<x, z, w, h>> of ten cells of the map before MapVoronoiZoom, one in
\* each of eleven fragments.  World seed 1 has a river on every cell of the
\* nine boxes that are not at x = 0, and on no cell of the two that are
ObservedBoxes ==
  <<<<23, 27, 5, 2>>, <<0, 0, 2, 5>>, <<19, 41, 5, 2>>, <<0, 16, 2, 5>>,
    <<23, 57, 2, 5>>, <<37, 23, 2, 5>>, <<49, 16, 2, 5>>, <<49, 36, 5, 2>>,
    <<67, 40, 5, 2>>, <<32, 90, 5, 2>>, <<52, 92, 5, 2>>>>

\* The river points observed in a box: the cell (4 x + 2, 4 z + 2) of the
\* voronoi map for each cell (x, z) of the box
BoxPoints(b) ==
  [k \in 1..(b[3] * b[4]) |->
     <<4 * (b[1] + ((k - 1) \div b[4])) + 2, 4 * (b[2] + ((k - 1) % b[4])) + 2>>]

\* The river points of the first n boxes
RECURSIVE ObservedPoints(_)
ObservedPoints(n) ==
  IF n = 0 THEN <<>> ELSE ObservedPoints(n - 1) \o BoxPoints(ObservedBoxes[n])

\* Eleven river points of one fragment.  World seed 1 has a river on nine of
\* their cells: all but (22, 28) and (29, 28)
ElevenCells ==
  <<<<23, 27>>, <<24, 27>>, <<25, 27>>, <<26, 27>>, <<27, 27>>, <<28, 27>>,
    <<23, 28>>, <<24, 28>>, <<25, 28>>, <<22, 28>>, <<29, 28>>>>

ElevenPoints ==
  [k \in 1..Len(ElevenCells) |-> <<4 * ElevenCells[k][1] + 2, 4 * ElevenCells[k][2] + 2>>]

\* The lists river_coords_voronoi the finder is called with
RiverPointLists == {ObservedPoints(n) : n \in 0..Len(ObservedBoxes)}

\* The world seeds candidate_river_map is called with
CandidateSeeds ==
  UNION {{similar_biome_seed_iterator_bits_25(i),
          Xor64(similar_biome_seed_iterator_bits_25(i), Bit25)} :
           i \in 0..(MaxRange - 1)}

\* The areas candidate_river_map is called with
TargetAreas ==
  {Map_area(t.map) : t \in target_maps_derived(ObservedPoints(Len(ObservedBoxes)))}
    \cup {Map_area(t.map) : t \in target_maps_derived(ElevenPoints)}

\* The maps of all calls of candidate_river_map, which keeps no state
candidate_river_maps ==
  [world_seed \in CandidateSeeds, area \in TargetAreas |->
     candidate_river_map(area, world_seed)]

\* One pass of the loop 'nextmap: the checks of the target map t for
\* world_seed and for world_seed ^ (1 << 25)
check_map(st, t, world_seed, bad_map_target) ==
  CHOOSE st1 \in
    {[check0 |-> st.check0 /\ bad_maps0 < bad_map_target,
      check1 |-> st.check1 /\ bad_maps1 < bad_map_target,
      bad_maps0 |-> bad_maps0, bad_maps1 |-> bad_maps1] :
       bad_maps0 \in
         {IF /\ st.check0
             /\ count_rivers_and(candidate_river_maps[world_seed, Map_area(t.map)],
                                 t.map)
                  < (t.rivers * 90) \div 100
          THEN st.bad_maps0 + 1 ELSE st.bad_maps0},
       bad_maps1 \in
         {IF /\ st.check1
             /\ count_rivers_and(candidate_river_maps[Xor64(world_seed, Bit25),
                                                      Map_area(t.map)], t.map)
                  < (t.rivers * 90) \div 100
          THEN st.bad_maps1 + 1 ELSE st.bad_maps1}} : TRUE

\* The loop 'nextmap from the k-th target map on; it ends early, with
\* continue 'nextseed, when check0 and check1 are both false
RECURSIVE check_maps(_, _, _, _, _)
check_maps(st, targets, k, world_seed, bad_map_target) ==
  CHOOSE st1 \in
    {IF k > Len(targets) \/ (~st0.check0 /\ ~st0.check1) THEN st0
     ELSE check_maps(check_map(st0, targets[k], world_seed, bad_map_target),
                     targets, k + 1, world_seed, bad_map_target) :
       st0 \in {st}} : TRUE

\* What one pass of the loop 'nextseed pushes to candidates_26
seed_candidates(targets, world_seed, bad_map_target) ==
  CHOOSE pushed \in
    {(IF st.check0
      THEN <<world_seed, Low26(similar_biome_seed(world_seed))>> ELSE <<>>)
     \o (IF st.check1
         THEN <<Xor64(world_seed, Bit25),
                Low26(similar_biome_seed(Xor64(world_seed, Bit25)))>>
         ELSE <<>>) :
       st \in {check_maps([check0 |-> TRUE, check1 |-> TRUE,
                           bad_maps0 |-> 0, bad_maps1 |-> 0],
                          targets, 1, world_seed, bad_map_target)}} : TRUE

\* candidates_26 for the seeds iter25 yields from the index i on
RECURSIVE candidates_26(_, _, _)
candidates_26(targets, i, range_hi) ==
  IF i >= range_hi THEN <<>>
  ELSE seed_candidates(targets, similar_biome_seed_iterator_bits_25(i),
                       IF Len(targets) = 1 THEN 1 ELSE 2)
       \o candidates_26(targets, i + 1, range_hi)

\* river_seed_finder_26_range: the lists the call can return, one for each
\* choice of the target maps that the sort can leave in the first ten places
river_seed_finder_26_range(river_coords_voronoi, range_lo, range_hi) ==
  {candidates_26(targets, range_lo, range_hi) :
     targets \in {retained(T) :
                    T \in truncated(target_maps_derived(river_coords_voronoi))}}

\* The call on the whole range [range_lo, range_hi)
RangeWhole(points, range_lo, mid, range_hi) ==
  /\ call = "none"
  /\ \E r \in river_seed_finder_26_range(points, range_lo, range_hi) :
       /\ call' = "range_whole"
       /\ arg' = [points |-> points, range_lo |-> range_lo, mid |-> mid,
                  range_hi |-> range_hi]
       /\ ret' = <<r>>
  /\ UNCHANGED rngVars

\* The call on [range_lo, mid), after the call on the whole range
RangeLeft ==
  /\ call = "range_whole"
  /\ \E r \in river_seed_finder_26_range(arg.points, arg.range_lo, arg.mid) :
       /\ call' = "range_left"
       /\ ret' = Append(ret, r)
  /\ UNCHANGED <<arg, rngVars>>

\* The call on [mid, range_hi), after the two others
RangeRight ==
  /\ call = "range_left"
  /\ \E r \in river_seed_finder_26_range(arg.points, arg.mid, arg.range_hi) :
       /\ call' = "range_right"
       /\ ret' = Append(ret, r)
  /\ UNCHANGED <<arg, rngVars>>

FinderNext ==
  \/ /\ call = "none"
     /\ \E points \in RiverPointLists, range_lo \in 0..MaxRange,
           mid \in 0..MaxRange, range_hi \in 0..MaxRange :
          /\ range_lo <= mid /\ mid <= range_hi
          /\ RangeWhole(points, range_lo, mid, range_hi)
  \/ RangeLeft
  \/ RangeRight

FinderInit == FnIdle /\ RngIdle

SpecFinder == FinderInit /\ [][FinderNext]_vars

\* C4: once the three calls have returned, the list for [range_lo, range_hi)
\* is the list for [range_lo, mid) followed by the list for [mid, range_hi)
C4_RangeSplitConcatenates ==
  call = "range_right" => ret[1] = ret[2] \o ret[3]

(***************************************************************************)
(* src/src/java_rng.rs: next_int_n(10), which runs next_int_n_10, beside   *)
(* the rejection loop next_int_n runs for every other n                    *)
(***************************************************************************)
\* Most draws one call is followed through
MaxDraws == 4

\* The rejection loop of next_int_n from the state s: the state and the value
\* when it breaks; ok is FALSE when it has not within the given draws
RECURSIVE next_int_n_loop(_, _, _)
next_int_n_loop(s, n, draws) ==
  IF draws = 0 THEN [ok |-> FALSE, seed |-> s, val |-> 0]
  ELSE CHOOSE r \in
         {IF NoModuloBias(last_next(t, 31), last_next(t, 31) % n, n)
          THEN [ok |-> TRUE, seed |-> t, val |-> last_next(t, 31) % n]
          ELSE next_int_n_loop(t, n, draws - 1) :
            t \in {next_state(s)}} : TRUE

\* The internal state before a call of next(31) that draws bits, the
\* 17 bits below the draw being low
StateBeforeDraw(bits, low) ==
  previous_state(WrappingAdd(WrappingMul(FromNat(bits), FromNat(131072)),
                             FromNat(low)))

\* Draws of next(31) around the limit of next_int_n_10 and away from it
Draws10 ==
  {0, 9, 10, 1234567, 2147483629, 2147483630, 2147483638, 2147483639,
   2147483640, 2147483641, 2147483646, 2147483647}

\* Initial internal states: the first draw is one of Draws10; from the last
\* two the first two draws are rejected
Int10Seeds ==
  {StateBeforeDraw(b, low) : b \in Draws10, low \in {0, 77, 131071}}
    \cup {previous_state(StateBeforeDraw(b, 5)) : b \in {2147483640, 2147483647}}

Int10Init ==
  /\ seed \in Int10Seeds
  /\ pc = "idle"
  /\ rngOp = [name |-> "new", n |-> Zero64, m |-> 0, before |-> seed, ret |-> 0]
  /\ rngSteps = 0
  /\ FnIdle

Int10Next ==
  \/ NextIntN(10)
  \/ NextIntN10Loop
  \/ RngReturn

SpecInt10 == Int10Init /\ [][Int10Next]_vars

\* C11: when next_int_n(10) returns, its value and the state of the generator
\* are those the rejection loop of next_int_n gives for n = 10 from the state
\* before the call; and in every round the draw is kept by next_int_n_10
\* exactly when bits - bits % 10 + 9 does not pass i32::MAX
C11_NextIntN10IsGeneralLoop ==
  /\ (pc = "returned" /\ rngOp.name = "next_int_n" /\ rngOp.m = 10) =>
       \A r \in {next_int_n_loop(rngOp.before, 10, MaxDraws)} :
         r.ok /\ r.seed = seed /\ r.val = rngOp.ret
  /\ pc = "next_int_n_10" =>
       \A bits \in {last_next(next_state(seed), 31)} :
         AcceptBits10(bits) <=> NoModuloBias(bits, bits % 10, 10)

\* A call that rejected the draw 2147483640, the limit, before it returned
C11_Witness ==
  /\ pc = "returned" /\ rngOp.name = "next_int_n" /\ rngOp.m = 10
  /\ last_next(next_state(rngOp.before), 31) = Limit10
  /\ seed # next_state(rngOp.before)
  /\ rngOp.ret = last_next(seed, 31) % 10

(***************************************************************************)
(* next_long and extend_long_48 (src/src/java_rng.rs)                      *)
(***************************************************************************)
\* !x on a u64
Not64(a) ==
  <<4095 - a[1], 4095 - a[2], 4095 - a[3], 4095 - a[4], 4095 - a[5], 15 - a[6]>>

\* The sign bit of an i64
IsNegI64(a) == a[6] >= 8

\* x >> k on an i64: the sign bit is shifted in
SarI64(a, k) == IF IsNegI64(a) THEN Not64(Shr(Not64(a), k)) ELSE Shr(a, k)

\* x as u32 as u64: the low 32 bits
AsU32(a) == <<a[1], a[2], a[3] % 256, 0, 0, 0>>

\* x as u16, as a number
AsU16(a) == a[1] + (a[2] % 16) * W

\* i as i64, for an i32 i (sign extension)
I32AsI64(i) ==
  IF i >= 0 THEN FromNat(i)
  ELSE WrappingSub(FromNat((i + MaxI32) + 1), <<0, 0, 128, 0, 0, 0>>)

\* x << 16 on a u64 below 2^32, and x << 32 on a u64
Shl16(a) ==
  <<0, (a[1] % 256) * 16, a[1] \div 256 + (a[2] % 256) * 16,
    a[2] \div 256 + (a[3] % 256) * 16, 0, 0>>

Shl32(a) == WrappingMul(a, <<0, 0, 256, 0, 0, 0>>)

\* u32::wrapping_mul and u32::wrapping_add, on the low 32 bits of a and b
WrappingMulU32(a, b) ==
  LET p1 == a[1] * b[1]
      p2 == a[1] * b[2] + a[2] * b[1] + p1 \div W
      p3 == a[1] * b[3] + a[2] * b[2] + a[3] * b[1] + p2 \div W
  IN  <<p1 % W, p2 % W, p3 % 256, 0, 0, 0>>

WrappingAddU32(a, b) ==
  LET s1 == a[1] + b[1]
      s2 == a[2] + b[2] + s1 \div W
      s3 == a[3] + b[3] + s2 \div W
  IN  <<s1 % W, s2 % W, s3 % 256, 0, 0, 0>>

\* a + b on i64 leaves the range of i64
AddOverflows(a, b) ==
  /\ IsNegI64(a) = IsNegI64(b)
  /\ IsNegI64(WrappingAdd(a, b)) # IsNegI64(a)

\* JavaRng::i1_from_long
i1_from_long(l) == AsI32(l)

\* JavaRng::i0_from_long
i0_from_long(l) ==
  AsI32(WrappingAdd(SarI64(l, 32), FromNat(LowBit(SarI64(l, 31)))))

\* JavaRng::long_from_i0_i1 and the sum of next_long: the value the wrapping
\* sum has, and whether the + of the code overflows.  With overflow checks
\* compiled in, an overflowing + panics; without them it wraps.
long_from_i0_i1(i0, i1) ==
  [val |-> WrappingAdd(Shl32(I32AsI64(i0)), I32AsI64(i1)),
   overflow |-> AddOverflows(Shl32(I32AsI64(i0)), I32AsI64(i1))]

\* JavaRng::next_long from state s: the state after the two calls of
\* next_int, the sum and whether it overflows
next_long(s) ==
  CHOOSE r \in
    {[seed |-> s2, val |-> sum.val, overflow |-> sum.overflow] :
       s2 \in {next_state(next_state(s))},
       sum \in {long_from_i0_i1(last_next(next_state(s), 32),
                                last_next(next_state(next_state(s)), 32))}} : TRUE

\* previous_verify_16 with the top bit of p and of the seed left out of the
\* comparison
previous_verify_16_31(s, target) ==
  LET p1 == AsU16(previous_state(s))
      p == WrappingAddU32(Shl16(FromNat(target)), FromNat(p1))
      p2 == WrappingAddU32(WrappingMulU32(p, AsU32(A)), AsU32(C))
  IN  <<p2[1], p2[2], p2[3] % 128>> = <<s[1], s[2], s[3] % 128>>

\* JavaRng::previous_verify_16(target) == 0, on a generator of state s.  (p is
\* (target << 16) | p1, the two parts having no bit in common; p2 ^ (seed as
\* u32) is 0 exactly when p2 is seed as u32.)
previous_verify_16(s, target) ==
  LET p1 == AsU16(previous_state(s))
      p == WrappingAddU32(Shl16(FromNat(target)), FromNat(p1))
      p2 == WrappingAddU32(WrappingMulU32(p, AsU32(A)), AsU32(C))
  IN  p2 = AsU32(s)

\* The elements of a set of numbers in increasing order
RECURSIVE Ascending(_)
Ascending(S) ==
  IF S = {} THEN <<>>
  ELSE LET m == CHOOSE x \in S : \A y \in S : x <= y
       IN  <<m>> \o Ascending(S \ {m})

\* The generators extend_long_48 keeps, in the order of k0: those of state
\* seed | k0, 0 <= k0 < 0x10000, that pass previous_verify_16(i0)
extend_long_48_kept(l) ==
  LET i0 == AsU16(I32AsI64(i0_from_long(Mask48(l))))
      sd == Mask48(Shl16(AsU32(I32AsI64(i1_from_long(Mask48(l))))))
      at(k0) == WrappingAdd(sd, FromNat(k0))
      ks == Ascending({k0 \in 0 .. 65535 : previous_verify_16(at(k0), i0)})
  IN  [i \in 1 .. Len(ks) |-> at(ks[i])]

\* What extend_long_48 computes for each generator kept, in order:
\* previous(), previous(), next_long()
extend_long_48_longs(l) ==
  CHOOSE longs \in
    {[i \in 1 .. Len(kept) |-> next_long(previous_state(previous_state(kept[i])))] :
       kept \in {extend_long_48_kept(l)}} : longs = longs

\* JavaRng::extend_long_48: the outcomes of the call.  It returns the list of
\* the longs; where the sum of a next_long overflows, a build with overflow
\* checks panics instead.
extend_long_48(l) ==
  UNION {{[ok |-> TRUE, longs |-> [i \in 1 .. Len(longs) |-> longs[i].val]]}
           \cup (IF \E i \in 1 .. Len(longs) : longs[i].overflow
                 THEN {Panicked} ELSE {}) :
         longs \in {extend_long_48_longs(l)}}

\* The number of next_long calls made on one generator
MaxLongs == 2

\* Generator states and 48-bit inputs: the inputs of the test extend_48_to_64,
\* small numbers, and two states whose next_long draws -2^31 and then a
\* negative int
LongSeeds ==
  {<<3021, 973, 2821, 1929, 0, 0>>, <<1473, 2313, 3970, 1650, 0, 0>>,
   <<618, 1524, 1040, 262, 0, 0>>, <<1849, 288, 2248, 1910, 0, 0>>,
   <<3229, 1034, 1138, 3625, 0, 0>>, <<1713, 1725, 3562, 2716, 0, 0>>,
   <<2729, 1122, 3086, 3605, 0, 0>>, <<3598, 275, 3178, 3091, 0, 0>>,
   <<4095, 4095, 4095, 4095, 0, 0>>, <<0, 0, 0, 2048, 0, 0>>,
   <<0, 0, 3968, 4095, 4095, 7>>}
    \cup {FromNat(k) : k \in {0, 1, 6, 7, 11, 16}}

\* JavaRng::next_long.  An overflowing sum wraps or panics, as the build has it.
NextLong ==
  /\ pc = "idle" /\ rngSteps < MaxLongs /\ call = "none"
  /\ \E r \in {next_long(seed)} :
       /\ seed' = r.seed
       /\ rngOp' = RngCall("next_long", FromNat(2), 0, r.val)
       /\ pc' \in {"returned"} \cup (IF r.overflow THEN {"panicked"} ELSE {})
  /\ rngSteps' = rngSteps + 1
  /\ UNCHANGED fnVars

\* JavaRng::extend_long_48(l)
ExtendLong48(l) ==
  /\ call = "none"
  /\ call' = "extend_long_48"
  /\ arg' = <<l>>
  /\ ret' \in extend_long_48(l)
  /\ UNCHANGED rngVars

\* extend_long_48 is called on a long that next_long returned, or on a 48-bit
\* number of the caller (find_seed of wasm_gui.rs passes the seeds it found)
LongNext ==
  \/ NextLong
  \/ RngReturn /\ call = "none"
  \/ pc = "returned" /\ rngOp.name = "next_long" /\ ExtendLong48(rngOp.ret)
  \/ pc = "idle" /\ rngSteps = 0 /\ ExtendLong48(seed)

LongInit ==
  /\ seed \in LongSeeds
  /\ pc = "idle"
  /\ rngOp = [name |-> "new", n |-> Zero64, m |-> 0, before |-> seed, ret |-> 0]
  /\ rngSteps = 0
  /\ FnIdle

SpecLong == LongInit /\ [][LongNext]_vars

\* extend_long_48 returned a list (it did not panic)
ExtendReturned == call = "extend_long_48" /\ ret.ok

\* The list extend_long_48(l) returned is exact: every long of it has the low
\* 48 bits of l, is what next_long draws from one of the states the function
\* went back to (its two ints are the two next(32) of that state), and is
\* there once; and a long that next_long returned is in the list computed from
\* it.
ExtendListIsExact ==
  ExtendReturned =>
    /\ \A i \in 1 .. Len(ret.longs) : Mask48(ret.longs[i]) = Mask48(arg[1])
    /\ \A kept \in {extend_long_48_kept(arg[1])} :
         /\ Len(kept) = Len(ret.longs)
         /\ \A i \in 1 .. Len(kept) :
              \A r \in {previous_state(previous_state(kept[i]))} :
                /\ last_next(next_state(r), 32) = i0_from_long(ret.longs[i])
                /\ last_next(next_state(next_state(r)), 32)
                     = i1_from_long(ret.longs[i])
    /\ \A i, j \in 1 .. Len(ret.longs) : ret.longs[i] = ret.longs[j] => i = j
    /\ (pc = "returned" /\ rngOp.name = "next_long") =>
         \E i \in 1 .. Len(ret.longs) : ret.longs[i] = rngOp.ret

\* C12: for every input l, extend_long_48(l) returns exactly the 64-bit values
\* whose low 48 bits are those of l and that next_long draws from some state,
\* each once; so the list computed from the low 48 bits of r.next_long()
\* contains r.next_long().
C12_ExtendReturnsTheLongsOfL ==
  call = "extend_long_48" => (ret.ok /\ ExtendListIsExact)

\* C13: for every input l, extend_long_48(l) returns 0, 1 or 2 values and
\* never more than 2.
C13_ExtendReturnsAtMostTwo ==
  ExtendReturned => Len(ret.longs) \in {0, 1, 2}

\* extend_long_48 returned two values for the long a next_long call drew
C13_Witness ==
  /\ ExtendReturned /\ Len(ret.longs) = 2
  /\ pc = "returned" /\ rngOp.name = "next_long" /\ arg[1] = rngOp.ret

\* C17: for every generator state, next_long() returns (first next(32) << 32)
\* + (second next(32)) in wrapping 64-bit arithmetic, and the addition never
\* aborts on overflow, also when the first draw is -2^31 and the second draw
\* is negative.
C17_NextLongWrapsAndNeverAborts ==
  /\ pc # "panicked"
  /\ (pc = "returned" /\ rngOp.name = "next_long") =>
       /\ seed = next_state(next_state(rngOp.before))
       /\ rngOp.ret = WrappingAdd(Shl32(I32AsI64(last_next(next_state(rngOp.before), 32))),
                                  I32AsI64(last_next(seed, 32)))

(***************************************************************************)
(* num_steps_to and num_steps_to_other_under_l (src/src/java_rng.rs)       *)
(***************************************************************************)
RECURSIVE AndBits(_, _, _)
AndBits(a, b, k) ==
  IF k = 0 THEN 0
  ELSE ((a % 2) * (b % 2)) + 2 * AndBits(a \div 2, b \div 2, k - 1)

\* a & b on u64
And64(a, b) ==
  <<AndBits(a[1], b[1], 12), AndBits(a[2], b[2], 12), AndBits(a[3], b[3], 12),
    AndBits(a[4], b[4], 12), AndBits(a[5], b[5], 12), AndBits(a[6], b[6], 4)>>

\* a >= b on u64
Geq64(a, b) ==
  LET s1 == a[1] - b[1]
      s2 == a[2] - b[2] + s1 \div W
      s3 == a[3] - b[3] + s2 \div W
      s4 == a[4] - b[4] + s3 \div W
      s5 == a[5] - b[5] + s4 \div W
      s6 == a[6] - b[6] + s5 \div W
  IN  s6 >= 0

\* The locals of distance_between_rngs(_less_than) before the first round;
\* i counts the rounds of the loop
distance_locals(ss) ==
  [a |-> A, c |-> C, p |-> One64, z |-> get_raw_seed(ss), d |-> Zero64, i |-> 0,
   returned |-> "no"]

\* The body of the loop of distance_between_rngs with c = c * a
distance_round_ca(st, se) ==
  LET hit == And64(Xor64(st.z, get_raw_seed(se)), st.p) # Zero64
  IN  [a |-> WrappingMul(st.a, st.a),
       c |-> WrappingMul(st.c, st.a),
       p |-> WrappingAdd(st.p, st.p),
       z |-> IF hit THEN Mask48(WrappingAdd(WrappingMul(st.a, st.z), st.c)) ELSE st.z,
       d |-> IF hit THEN WrappingAdd(st.d, st.p) ELSE st.d,
       i |-> st.i + 1,
       returned |-> "no"]

\* The while loop of distance_between_rngs: its exit, or one round of its body
distance_round(st, se) ==
  IF st.z = get_raw_seed(se) THEN [st EXCEPT !.returned = "d"]
  ELSE LET hit == And64(Xor64(st.z, get_raw_seed(se)), st.p) # Zero64
       IN  [a |-> WrappingMul(st.a, st.a),
            c |-> WrappingMul(st.c, WrappingAdd(st.a, One64)),
            p |-> WrappingAdd(st.p, st.p),
            z |-> IF hit THEN Mask48(WrappingAdd(WrappingMul(st.a, st.z), st.c))
                  ELSE st.z,
            d |-> IF hit THEN WrappingAdd(st.d, st.p) ELSE st.d,
            i |-> st.i + 1,
            returned |-> "no"]

\* The while loop of distance_between_rngs_less_than: its exit with Some(d),
\* a return of None, or one round of its body
distance_round_less_than(st, se, limit) ==
  IF st.z = get_raw_seed(se) THEN [st EXCEPT !.returned = "Some"]
  ELSE IF Geq64(WrappingAdd(st.d, st.p), limit) THEN [st EXCEPT !.returned = "None"]
  ELSE LET hit == And64(Xor64(st.z, get_raw_seed(se)), st.p) # Zero64
       IN  IF hit /\ Geq64(WrappingAdd(st.d, st.p), limit)
           THEN [st EXCEPT !.d = WrappingAdd(st.d, st.p), !.returned = "None"]
           ELSE [a |-> WrappingMul(st.a, st.a),
                 c |-> WrappingMul(st.c, WrappingAdd(st.a, One64)),
                 p |-> WrappingAdd(st.p, st.p),
                 z |-> IF hit
                       THEN Mask48(WrappingAdd(WrappingMul(st.a, st.z), st.c))
                       ELSE st.z,
                 d |-> IF hit THEN WrappingAdd(st.d, st.p) ELSE st.d,
                 i |-> st.i + 1,
                 returned |-> "no"]

\* The rounds a loop may take in the model (the loops of the code have no bound)
MaxRounds == 50

\* The first generator of a call, and how many next calls lead to the second
DistSeeds ==
  {with_seed(FromNat(12345)), Zero64, <<4095, 4095, 4095, 4095, 4095, 15>>}

DistSteps ==
  {FromNat(0), FromNat(1), FromNat(2), FromNat(99), FromNat(65536),
   <<5, 0, 0, 2048, 0, 0>>, <<4095, 4095, 4095, 4095, 0, 0>>,
   <<1365, 2730, 1365, 2730, 0, 0>>}

\* The limits l of num_steps_to_other_under_l
DistLimits ==
  {FromNat(0), FromNat(1), FromNat(2), FromNat(98), FromNat(99), FromNat(100),
   <<5, 0, 0, 2048, 0, 0>>, <<6, 0, 0, 2048, 0, 0>>, <<0, 0, 0, 0, 1, 0>>,
   <<4095, 4095, 4095, 4095, 4095, 15>>}

\* r1.num_steps_to(r2), r2 being r1 after `steps` calls of next
NumStepsTo(ss, steps) ==
  /\ call = "none"
  /\ call' = "num_steps_to"
  /\ arg' = [ss |-> ss, se |-> next_n_calls(ss, steps), steps |-> steps,
             limit |-> Zero64]
  /\ ret' = distance_locals(ss)
  /\ UNCHANGED rngVars

\* r1.num_steps_to_other_under_l(r2, l)
NumStepsToOtherUnderL(ss, steps, l) ==
  /\ call = "none"
  /\ call' = "num_steps_to_other_under_l"
  /\ arg' = [ss |-> ss, se |-> next_n_calls(ss, steps), steps |-> steps,
             limit |-> l]
  /\ ret' = distance_locals(ss)
  /\ UNCHANGED rngVars

DistanceRound ==
  /\ call = "num_steps_to" /\ ret.returned = "no" /\ ret.i < MaxRounds
  /\ ret' = distance_round(ret, arg.se)
  /\ UNCHANGED <<rngVars, call, arg>>

DistanceRoundLessThan ==
  /\ call = "num_steps_to_other_under_l" /\ ret.returned = "no" /\ ret.i < MaxRounds
  /\ ret' = distance_round_less_than(ret, arg.se, arg.limit)
  /\ UNCHANGED <<rngVars, call, arg>>

DistNext ==
  \/ call = "none" /\ \E ss \in DistSeeds, steps \in DistSteps : NumStepsTo(ss, steps)
  \/ call = "none" /\ \E ss \in DistSeeds, steps \in DistSteps, l \in DistLimits :
       NumStepsToOtherUnderL(ss, steps, l)
  \/ DistanceRound
  \/ DistanceRoundLessThan

DistInit == FnIdle /\ RngIdle

SpecDist == DistInit /\ [][DistNext]_vars

\* C14: r1.num_steps_to(r2) terminates within 48 rounds and returns d < 2^48
\* such that exactly d calls of next transform r1 into r2: d = 0 for equal
\* states, d = k when r2 is r1 advanced k < 2^48 times.
C14_NumStepsToIsTheDistance ==
  call = "num_steps_to" =>
    /\ ret.i <= 48
    /\ (ret.i = 48 /\ ret.returned = "no") => ret.z = get_raw_seed(arg.se)
    /\ ret.returned = "d" =>
         /\ ret.d[5] = 0 /\ ret.d[6] = 0
         /\ ret.d = arg.steps
         /\ get_raw_seed(next_n_calls(arg.ss, ret.d)) = get_raw_seed(arg.se)
         /\ (get_raw_seed(arg.ss) = get_raw_seed(arg.se) <=> ret.d = Zero64)

\* num_steps_to returned 2^48 - 1 after 48 rounds
C14_Witness ==
  /\ call = "num_steps_to" /\ ret.returned = "d" /\ ret.i = 48
  /\ ret.d = <<4095, 4095, 4095, 4095, 0, 0>>
  /\ arg.ss = with_seed(FromNat(12345))

\* C15: for every limit l >= 0, r1.num_steps_to_other_under_l(r2, l) returns
\* Some(d), d = r1.num_steps_to(r2), exactly when d < l, and None exactly when
\* the number of calls is greater than or equal to l.
C15_UnderLimitIsDistanceBelowL ==
  (call = "num_steps_to_other_under_l" /\ ret.returned # "no") =>
    /\ ret.returned = "Some" <=> ~Geq64(arg.steps, arg.limit)
    /\ ret.returned = "None" <=> Geq64(arg.steps, arg.limit)
    /\ ret.returned = "Some" => ret.d = arg.steps

\* C15 for limits l >= 1
UnderLimitIsDistanceBelowL_1 ==
  (call = "num_steps_to_other_under_l" /\ arg.limit # Zero64)
    => C15_UnderLimitIsDistanceBelowL

(***************************************************************************)
(* next(bits) for every width                                              *)
(***************************************************************************)
\* The top `bits` bits of the 48-bit state s, a number below 2^32 on limbs
TopBits(s, bits) == Shr(Mask48(s), 48 - bits)

\* The bit of weight 2^(bits - 1) of v, and v without it as a number
SliceMsb(v, bits) == LowBit(Shr(v, bits - 1))

SliceLow(v, bits) ==
  LET low == IF SliceMsb(v, bits) = 1
             THEN WrappingSub(v, IF bits = 32 THEN <<0, 0, 128, 0, 0, 0>>
                                    ELSE FromNat(Pow2(bits - 1)))
             ELSE v
  IN  low[1] + low[2] * W + low[3] * W * W

\* v, a slice of `bits` bits, sign-extended from its most significant bit
SignExtended(v, bits) ==
  IF SliceMsb(v, bits) = 0 THEN SliceLow(v, bits)
  ELSE IF bits = 1 THEN 0 - 1
  ELSE (SliceLow(v, bits) - Pow2(bits - 2)) - Pow2(bits - 2)

\* v, a slice of `bits` bits, zero-extended to 64 bits and cast to i32: only a
\* slice of 32 bits reaches the sign bit of the i32
ZeroExtendedAsI32(v, bits) ==
  IF bits = 32 THEN SignExtended(v, 32)
  ELSE SliceLow(v, bits) + SliceMsb(v, bits) * Pow2(bits - 1)

BitsNext == \E bits \in 1 .. 32 : Next_(bits)

SpecBits == SpecRngInit /\ [][BitsNext]_vars

\* C16: for every state and every bits in 1..=32, next(bits) advances the
\* state by one LCG step (s * A + C mod 2^48) and returns the top `bits` bits
\* of the new 48-bit state as a signed 32-bit integer, sign-extended from the
\* most significant bit of that slice.
C16_NextReturnsSignExtendedSlice ==
  rngOp.name = "next" =>
    /\ get_raw_seed(seed) = Mask48(WrappingAdd(WrappingMul(rngOp.before, A), C))
    /\ rngOp.ret = SignExtended(TopBits(seed, rngOp.m), rngOp.m)

\* C16, amended: next(bits) advances the state by one LCG step and returns the
\* top `bits` bits of the new 48-bit state zero-extended and cast to i32: a
\* number in 0 .. 2^bits - 1 for bits <= 31, and for bits = 32 the two's
\* complement reading of the 32 bits.
C16_NextReturnsZeroExtendedSlice ==
  rngOp.name = "next" =>
    /\ get_raw_seed(seed) = Mask48(WrappingAdd(WrappingMul(rngOp.before, A), C))
    /\ rngOp.ret = ZeroExtendedAsI32(TopBits(seed, rngOp.m), rngOp.m)
    /\ rngOp.m < 32 =>
         /\ rngOp.ret >= 0
         /\ rngOp.ret <= (Pow2(rngOp.m - 1) - 1) + Pow2(rngOp.m - 1)

\* next(31) returned a slice whose most significant bit is set, from a state
\* that has bits above the 48th
C16_Witness ==
  /\ rngOp.name = "next" /\ rngOp.m = 31
  /\ rngOp.ret >= 1073741824
  /\ seed # Mask48(seed)

(***************************************************************************)
(* split_rivers_into_fragments on lists of points around the axes          *)
(***************************************************************************)
\* Longest list of river points
MaxPoints == 2

\* River points on both sides of the bucket borders -64, 0 and 64
FragPoints ==
  {<<-65, 0>>, <<-64, 0>>, <<-1, 0>>, <<0, 0>>, <<63, 0>>, <<64, 1>>,
   <<0, -1>>, <<-1, 1>>, <<127, -1>>, <<-63, -64>>}

FragLists == UNION {[1 .. n -> FragPoints] : n \in 1 .. MaxPoints}

SplitRiversIntoFragments(points) ==
  /\ call = "none"
  /\ call' = "split_rivers_into_fragments"
  /\ arg' = <<points>>
  /\ ret' = split_rivers_into_fragments(points)
  /\ UNCHANGED rngVars

FragNext == call = "none" /\ \E points \in FragLists : SplitRiversIntoFragments(points)

SpecFrag == AreaInit /\ [][FragNext]_vars

\* The river cells of the fragment maps are the points of the list, each in
\* one map
FragmentsPartitionPoints ==
  call = "split_rivers_into_fragments" =>
    /\ \A k \in DOMAIN arg[1] :
         Cardinality({m \in ret : /\ contains(m, arg[1][k][1], arg[1][k][2])
                                   /\ get(m, arg[1][k][1], arg[1][k][2]) = river}) = 1
    /\ \A m \in ret : \A ij \in Cells(m.w, m.h) :
         m.a[ij] = river =>
           \E k \in DOMAIN arg[1] : arg[1][k] = <<m.x + ij[1], m.z + ij[2]>>

\* C18: for every list of river points, including points with negative
\* coordinates, split_rivers_into_fragments partitions the points into 64x64
\* buckets: every point is a river cell of exactly one fragment map, the maps
\* have no other river cells, and every map is at most 64 wide and 64 high.
C18_FragmentsAre64x64Buckets ==
  call = "split_rivers_into_fragments" =>
    /\ FragmentsPartitionPoints
    /\ \A m \in ret : m.w <= 64 /\ m.h <= 64

\* The maps are at most 127 wide and high, and at most 64 away from the axes
FragmentsAreAtMost127 ==
  call = "split_rivers_into_fragments" =>
    \A m \in ret :
      /\ m.w <= 127 /\ m.h <= 127
      /\ (m.x >= 0 \/ m.x + m.w <= 0) => m.w <= 64
      /\ (m.z >= 0 \/ m.z + m.h <= 0) => m.h <= 64

(***************************************************************************)
(* The loops 'nextseed and 'nextmap of river_seed_finder_26_range, one     *)
(* target map at a time                                                    *)
(***************************************************************************)
\* The loop 'nextmap is over: every target map was checked, or check0 and
\* check1 are both false (continue 'nextseed)
NextMapOver(st, k, targets) == k > Len(targets) \/ (~st.check0 /\ ~st.check1)

\* One pass of 'nextseed begins: the target maps are prepared (once, before the
\* loop), world_seed is the i-th seed of iter25
NextSeed(points, i) ==
  /\ call = "none"
  /\ \E targets \in {retained(T) : T \in truncated(target_maps_derived(points))} :
       arg' = [targets |-> targets,
               world_seed |-> similar_biome_seed_iterator_bits_25(i),
               bad_map_target |-> IF Len(targets) = 1 THEN 1 ELSE 2]
  /\ call' = "river_seed_finder_26_range"
  /\ ret' = [st |-> [check0 |-> TRUE, check1 |-> TRUE, bad_maps0 |-> 0, bad_maps1 |-> 0],
             k |-> 1, over |-> FALSE, pushed |-> <<>>]
  /\ UNCHANGED rngVars

\* One pass of 'nextmap
NextMap ==
  /\ call = "river_seed_finder_26_range" /\ ~ret.over
  /\ ~NextMapOver(ret.st, ret.k, arg.targets)
  /\ ret' = [ret EXCEPT
               !.st = check_map(ret.st, arg.targets[ret.k], arg.world_seed,
                                arg.bad_map_target),
               !.k = ret.k + 1]
  /\ UNCHANGED <<call, arg, rngVars>>

\* After 'nextmap: the pushes to candidates_26 (none after continue 'nextseed)
PushCandidates ==
  /\ call = "river_seed_finder_26_range" /\ ~ret.over
  /\ NextMapOver(ret.st, ret.k, arg.targets)
  /\ ret' = [ret EXCEPT
               !.over = TRUE,
               !.pushed =
                 (IF ret.st.check0
                  THEN <<arg.world_seed, Low26(similar_biome_seed(arg.world_seed))>>
                  ELSE <<>>)
                 \o (IF ret.st.check1
                     THEN <<Xor64(arg.world_seed, Bit25),
                            Low26(similar_biome_seed(Xor64(arg.world_seed, Bit25)))>>
                     ELSE <<>>)]
  /\ UNCHANGED <<call, arg, rngVars>>

SeedNext ==
  \/ call = "none" /\ \E points \in RiverPointLists \cup {ElevenPoints},
                         i \in 0..(MaxRange - 1) : NextSeed(points, i)
  \/ NextMap
  \/ PushCandidates

SpecSeed == FinderInit /\ [][SeedNext]_vars

\* The river cells of the k-th target map that are river in the candidate map
\* of world_seed
MatchedRivers(k, world_seed) ==
  count_rivers_and(candidate_river_maps[world_seed, Map_area(arg.targets[k].map)],
                   arg.targets[k].map)

\* The target maps of which fewer than 90% of the river cells are river in
\* the candidate map of world_seed
MapsUnder90Percent(world_seed) ==
  {k \in 1..Len(arg.targets) :
     100 * MatchedRivers(k, world_seed) < 90 * arg.targets[k].rivers}

\* The target maps whose matched river cells are fewer than 90% of the river
\* cells rounded down
MapsUnderFloor90Percent(world_seed) ==
  {k \in 1..Len(arg.targets) :
     MatchedRivers(k, world_seed) < (arg.targets[k].rivers * 90) \div 100}

\* The seeds pushed for a variant that is kept
PushedFor(world_seed) == <<world_seed, Low26(similar_biome_seed(world_seed))>>

\* C19: each of the two bit-25 variants of a tried seed is kept exactly when
\* fewer target maps than the bad-map budget (2, or 1 for a single target map)
\* are bad, a map being bad exactly when fewer than 90% of its river cells are
\* river in the candidate river map; the early stop does not change this.
C19_KeptWhenFewBadMapsAt90Percent ==
  (call = "river_seed_finder_26_range" /\ ret.over) =>
    \A kept0 \in {Cardinality(MapsUnder90Percent(arg.world_seed))
                    < (IF Len(arg.targets) = 1 THEN 1 ELSE 2)},
       kept1 \in {Cardinality(MapsUnder90Percent(Xor64(arg.world_seed, Bit25)))
                    < (IF Len(arg.targets) = 1 THEN 1 ELSE 2)} :
      ret.pushed = (IF kept0 THEN PushedFor(arg.world_seed) ELSE <<>>)
                   \o (IF kept1 THEN PushedFor(Xor64(arg.world_seed, Bit25)) ELSE <<>>)

\* The same with a map bad exactly when its matched river cells are fewer than
\* target_score * 90 / 100 in integer arithmetic
KeptWhenFewBadMapsAtFloor90Percent ==
  (call = "river_seed_finder_26_range" /\ ret.over) =>
    \A kept0 \in {Cardinality(MapsUnderFloor90Percent(arg.world_seed))
                    < (IF Len(arg.targets) = 1 THEN 1 ELSE 2)},
       kept1 \in {Cardinality(MapsUnderFloor90Percent(Xor64(arg.world_seed, Bit25)))
                    < (IF Len(arg.targets) = 1 THEN 1 ELSE 2)} :
      ret.pushed = (IF kept0 THEN PushedFor(arg.world_seed) ELSE <<>>)
                   \o (IF kept1 THEN PushedFor(Xor64(arg.world_seed, Bit25)) ELSE <<>>)

(***************************************************************************)
(* The extra biomes of river_seed_finder_range, for a world seed that      *)
(* passed the comparison of the rivers.  The biome generate_up_to_layer    *)
(* gives at a cell is an input here: g43[<<x, z>>] for the world seed tried *)
(***************************************************************************)
\* Longest list of extra biomes of which every list is tried
MaxExtra == 3

ExtraCoords == {<<0, 0>>, <<5, -3>>}

\* The biomes asserted and generated: plains and river
ExtraBiomes == {1, river}

\* The assertions (biome, x, z)
ExtraAssertions == {<<b, c[1], c[2]>> : b \in ExtraBiomes, c \in ExtraCoords}

\* Lists of 9 to 21 assertions on the cell (0, 0): hits assertions of plains
\* and misses of river, or the misses first
LongExtraLists ==
  UNION {{[k \in 1..(hits + misses) |-> IF k <= hits THEN <<1, 0, 0>> ELSE <<river, 0, 0>>],
          [k \in 1..(hits + misses) |-> IF k <= misses THEN <<river, 0, 0>> ELSE <<1, 0, 0>>]} :
         hits \in {8, 9, 10, 17, 18}, misses \in 0..3}

ExtraLists == UNION {[1..n -> ExtraAssertions] : n \in 0..MaxExtra} \cup LongExtraLists

\* let mut hits = 0 .. let max_misses = ..
TryExtraBiomes(g43, extra_biomes) ==
  /\ call = "none"
  /\ call' = "river_seed_finder_range"
  /\ arg' = [g43 |-> g43, extra_biomes |-> extra_biomes]
  /\ ret' = [hits |-> 0, misses |-> 0,
             target |-> (Len(extra_biomes) * 90) \div 100,
             max_misses |-> Len(extra_biomes) - (Len(extra_biomes) * 90) \div 100,
             k |-> 1, break |-> FALSE, returned |-> "no"]
  /\ UNCHANGED rngVars

\* One pass of the loop over extra_biomes
ExtraBiome ==
  /\ call = "river_seed_finder_range" /\ ret.returned = "no"
  /\ ret.k <= Len(arg.extra_biomes) /\ ~ret.break
  /\ \E a \in {arg.extra_biomes[ret.k]} :
       ret' = IF arg.g43[<<a[2], a[3]>>] = a[1]
              THEN [ret EXCEPT !.hits = ret.hits + 1, !.k = ret.k + 1]
              ELSE [ret EXCEPT !.misses = ret.misses + 1, !.k = ret.k + 1,
                               !.break = ret.misses + 1 > ret.max_misses]
  /\ UNCHANGED <<call, arg, rngVars>>

\* if hits >= target { Some(world_seed) } else { None }
ExtraReturn ==
  /\ call = "river_seed_finder_range" /\ ret.returned = "no"
  /\ ret.k > Len(arg.extra_biomes) \/ ret.break
  /\ ret' = [ret EXCEPT !.returned = IF ret.hits >= ret.target THEN "Some" ELSE "None"]
  /\ UNCHANGED <<call, arg, rngVars>>

ExtraNext ==
  \/ call = "none" /\ \E g43 \in [ExtraCoords -> ExtraBiomes], extra_biomes \in ExtraLists :
       TryExtraBiomes(g43, extra_biomes)
  \/ ExtraBiome
  \/ ExtraReturn

SpecExtra == FinderInit /\ [][ExtraNext]_vars

\* The assertions of the list that equal the biome generated at their cell
ExtraMatches ==
  Cardinality({k \in DOMAIN arg.extra_biomes :
                 arg.g43[<<arg.extra_biomes[k][2], arg.extra_biomes[k][3]>>]
                   = arg.extra_biomes[k][1]})

\* C20: a seed that passed the river comparison is accepted exactly when at
\* least 90% of the extra-biome assertions (biome, x, z) equal the biome
\* generated at the cell (x, z), for every length of the list; the break after
\* too many misses does not change the decision.
C20_AcceptedWhen90PercentMatch ==
  (call = "river_seed_finder_range" /\ ret.returned # "no") =>
    (ret.returned = "Some" <=> 100 * ExtraMatches >= 90 * Len(arg.extra_biomes))

\* The same with the 90% of the length rounded down
AcceptedWhenFloor90PercentMatch ==
  (call = "river_seed_finder_range" /\ ret.returned # "no") =>
    (ret.returned = "Some" <=> ExtraMatches >= (Len(arg.extra_biomes) * 90) \div 100)

(***************************************************************************)
(* src/src/biome_layers.rs: CachedMap, a layer that remembers the cells    *)
(* its parent returned                                                     *)
(***************************************************************************)
\* The cells of a map under the key of the cache, relative to the map's origin
relative_keys(m) == {<<c[1], c[2]>> : c \in Cells(m.w, m.h)}

\* CachedMap::insert_into_cache with the keys relative to the origin of m
insert_into_cache_relative(cache, m) ==
  CHOOSE c1 \in
    {[k \in DOMAIN cache \cup relative_keys(m) |->
        IF k \in relative_keys(m) THEN m.a[<<k[1], k[2]>>] ELSE cache[k]]} :
    c1 = c1

\* The absolute coordinates of the cells of an area
area_keys(area) == {<<area.x + c[1], area.z + c[2]>> : c \in Cells(area.w, area.h)}

\* CachedMap::insert_into_cache: every cell of m under its absolute coordinates
insert_into_cache(cache, m) ==
  CHOOSE c1 \in
    {[k \in DOMAIN cache \cup area_keys(m) |->
        IF k \in area_keys(m) THEN m.a[<<k[1] - m.x, k[2] - m.z>>] ELSE cache[k]]} :
    c1 = c1

\* CachedMap::get_all_from_cache: the map of the area when all its cells are
\* cached, None (Err) when one is missing
get_all_from_cache(cache, area) ==
  IF area_keys(area) \subseteq DOMAIN cache
  THEN MapOf(area.x, area.z, area.w, area.h,
             [c \in Cells(area.w, area.h) |-> cache[<<area.x + c[1], area.z + c[2]>>]])
  ELSE Err

\* The parents of the cached layer: TestMapCheckers and MapIsland
CachedParents == {"TestMapCheckers", "MapIsland"}

\* parent.get_map
parent_get_map(parent, area) ==
  IF parent = "TestMapCheckers" THEN TestMapCheckers_get_map(area)
  ELSE MapIsland_get_map(1, TestWorldSeed, area)

\* Largest |x|, |z| of an area asked of the cached layer
MaxCacheCoord == 1

\* Largest width and height of an area asked of the cached layer
MaxCacheSize == 2

\* Number of get_map calls on one CachedMap
MaxGets == 3

CacheAreas ==
  {Area(x, z, w, h) : x \in -MaxCacheCoord..MaxCacheCoord,
                      z \in -MaxCacheCoord..MaxCacheCoord,
                      w \in 0..MaxCacheSize, h \in 0..MaxCacheSize}

\* CachedMap::new
CachedMapNew(parent) ==
  /\ call = "none"
  /\ call' = "CachedMap"
  /\ arg' = [parent |-> parent, area |-> Area(0, 0, 0, 0), gets |-> 0,
             from_cache |-> FALSE]
  /\ ret' = [cache |-> <<>>, m |-> Err]
  /\ UNCHANGED rngVars

\* CachedMap::get_map
CachedMap_get_map(area) ==
  /\ call = "CachedMap"
  /\ arg.gets < MaxGets
  /\ LET cached == get_all_from_cache(ret.cache, area)
         m == parent_get_map(arg.parent, area)
     IN  /\ arg' = [arg EXCEPT !.area = area, !.gets = @ + 1,
                               !.from_cache = cached.ok]
         /\ ret' = IF cached.ok THEN [ret EXCEPT !.m = cached]
                   ELSE [cache |-> insert_into_cache(ret.cache, m), m |-> m]
  /\ UNCHANGED <<call, rngVars>>

CacheNext ==
  \/ \E parent \in CachedParents : CachedMapNew(parent)
  \/ \E area \in CacheAreas : CachedMap_get_map(area)

CacheInit == FnIdle /\ RngIdle

SpecCache == CacheInit /\ [][CacheNext]_vars

\* C21: after any sequence of get_map calls on a CachedMap, every entry of the
\* cache is the value of the parent at that absolute coordinate, and the map
\* returned last is the map parent.get_map returns for the same area, whether
\* it came from the cache or from the parent.
C21_CacheAgreesWithParent ==
  call = "CachedMap" =>
    /\ \A k \in DOMAIN ret.cache :
         ret.cache[k] = parent_get_map(arg.parent, Area(k[1], k[2], 1, 1)).a[<<0, 0>>]
    /\ arg.gets > 0 => ret.m = parent_get_map(arg.parent, arg.area)

\* A third call served from the cache for an area of four cells that no
\* earlier call asked for as a whole, and whose cells are not all equal
C21_Witness ==
  /\ call = "CachedMap" /\ arg.gets = 3 /\ arg.from_cache
  /\ arg.area = Area(-1, -1, 2, 2)
  /\ ret.m.ok /\ ret.m.a[<<0, 0>>] # ret.m.a[<<1, 1>>]
  /\ Cardinality(DOMAIN ret.cache) = 4

(***************************************************************************)
(* src/src/wasm_gui.rs: the entry points that receive seeds as text        *)
(***************************************************************************)
\* The value of a decimal digit, -1 for any other character
to_digit(ch) ==
  IF ch = "0" THEN 0 ELSE IF ch = "1" THEN 1 ELSE IF ch = "2" THEN 2
  ELSE IF ch = "3" THEN 3 ELSE IF ch = "4" THEN 4 ELSE IF ch = "5" THEN 5
  ELSE IF ch = "6" THEN 6 ELSE IF ch = "7" THEN 7 ELSE IF ch = "8" THEN 8
  ELSE IF ch = "9" THEN 9 ELSE -1

\* v.checked_mul(10) and checked_add(d) on a u64
checked_mul10_add(v, d) ==
  LET t1 == v[1] * 10 + d
      t2 == v[2] * 10 + t1 \div W
      t3 == v[3] * 10 + t2 \div W
      t4 == v[4] * 10 + t3 \div W
      t5 == v[5] * 10 + t4 \div W
      t6 == v[6] * 10 + t5 \div W
  IN  [ok |-> t6 < 16, val |-> <<t1 % W, t2 % W, t3 % W, t4 % W, t5 % W, t6 % 16>>]

\* The digits of a text folded from the left: the magnitude, or the error
RECURSIVE parse_digits(_, _, _)
parse_digits(text, i, acc) ==
  IF ~acc.ok \/ i > Len(text) THEN acc
  ELSE IF to_digit(text[i]) < 0
  THEN [ok |-> FALSE, val |-> Zero64, err |-> "invalid digit found in string"]
  ELSE LET r == checked_mul10_add(acc.val, to_digit(text[i]))
       IN  parse_digits(text, i + 1,
             IF r.ok THEN [ok |-> TRUE, val |-> r.val, err |-> ""]
             ELSE [ok |-> FALSE, val |-> Zero64,
                   err |-> "number too large to fit in target type"])

\* str::parse::<u64>: an optional "+" and decimal digits, below 2^64
parse_u64(text) ==
  IF Len(text) = 0
  THEN [ok |-> FALSE, val |-> Zero64, err |-> "cannot parse integer from empty string"]
  ELSE IF Len(text) = 1 /\ text[1] \in {"+", "-"}
  THEN [ok |-> FALSE, val |-> Zero64, err |-> "invalid digit found in string"]
  ELSE parse_digits(text, IF text[1] = "+" THEN 2 ELSE 1,
                    [ok |-> TRUE, val |-> Zero64, err |-> ""])

\* str::parse::<i64>: an optional sign and decimal digits, from -2^63 to 2^63 - 1
parse_i64(text) ==
  IF Len(text) = 0
  THEN [ok |-> FALSE, val |-> Zero64, err |-> "cannot parse integer from empty string"]
  ELSE IF Len(text) = 1 /\ text[1] \in {"+", "-"}
  THEN [ok |-> FALSE, val |-> Zero64, err |-> "invalid digit found in string"]
  ELSE LET neg == text[1] = "-"
           mag == parse_digits(text, IF text[1] \in {"+", "-"} THEN 2 ELSE 1,
                               [ok |-> TRUE, val |-> Zero64, err |-> ""])
           \* 2^63
           min == <<0, 0, 0, 0, 0, 8>>
       IN  IF ~mag.ok
           THEN (IF neg /\ mag.err = "number too large to fit in target type"
                 THEN [mag EXCEPT !.err = "number too small to fit in target type"]
                 ELSE mag)
           ELSE IF neg
           THEN (IF Geq64(min, mag.val)
                 THEN [mag EXCEPT !.val = WrappingSub(Zero64, mag.val)]
                 ELSE [ok |-> FALSE, val |-> Zero64,
                       err |-> "number too small to fit in target type"])
           ELSE IF Geq64(mag.val, min)
           THEN [ok |-> FALSE, val |-> Zero64,
                 err |-> "number too large to fit in target type"]
           ELSE mag

\* 2^48
Two48 == <<0, 0, 0, 0, 1, 0>>

\* What an entry point hands back: a value, or the abort of a panic
Returned(value) == [outcome |-> "returned", value |-> value]

\* The values: an error text, the seeds found as text, an image of len bytes
Value(kind, text, len, seeds) ==
  [kind |-> kind, text |-> text, len |-> len, seeds |-> seeds]

Aborted == [outcome |-> "aborted", value |-> Value("none", "", 0, <<>>)]

\* extend48: the outcomes of the call, with the argument extend_long_48 was
\* called with (<<>> when it was not called)
extend48(s) ==
  LET x == parse_u64(s)
  IN  IF ~x.ok THEN {[r |-> Returned(Value("error", x.err, 0, <<>>)), extended |-> <<>>]}
      ELSE IF ~Geq64(x.val, Two48)
      THEN {[r |-> IF o.ok THEN Returned(Value("found", "Found seeds!", 0, o.longs))
                   ELSE Aborted,
             extended |-> <<x.val>>] : o \in extend_long_48(x.val)}
      ELSE {[r |-> Returned(Value("error", "Input must be lower than 2^48", 0, <<>>)),
             extended |-> <<>>]}

\* generate_fragment: the zero-filled image for a text that is no seed, the
\* image of the area otherwise (generate_image: 4 bytes for each cell)
generate_fragment(fx, fy, seed_text, size) ==
  LET s == parse_i64(seed_text)
  IN  IF ~s.ok THEN Returned(Value("zeros", "", size * size * 4, <<>>))
      ELSE Returned(Value("biomes", "", size * size * 4, <<s.val>>))

\* generate_fragment_slime_map: a text that is no seed panics in the closure of
\* unwrap_or_else; slime_to_color divides by the number of seeds
generate_fragment_slime_map(fx, fy, seeds, size) ==
  IF \E i \in 1 .. Len(seeds) : ~parse_u64(seeds[i]).ok THEN Aborted
  ELSE IF Len(seeds) = 0 /\ size * size > 0 THEN Aborted
  ELSE Returned(Value("slime", "", size * size * 4,
                      [i \in 1 .. Len(seeds) |-> parse_u64(seeds[i]).val]))

\* Texts handed in as seeds: empty, signs, letters, blanks, and numbers on both
\* sides of 2^48, 2^63 and 2^64
SeedTexts ==
  {<<>>,
   <<"0">>,
   <<"1">>,
   <<"+", "1">>,
   <<"-", "1">>,
   <<"-">>,
   <<"1", "2", "a">>,
   <<" ", "1">>,
   <<"1", "6">>,
   <<"2", "8", "1", "4", "7", "4", "9", "7", "6", "7", "1", "0", "6", "5", "5">>,
   <<"2", "8", "1", "4", "7", "4", "9", "7", "6", "7", "1", "0", "6", "5", "6">>,
   <<"9", "2", "2", "3", "3", "7", "2", "0", "3", "6", "8", "5", "4", "7", "7", "5", "8", "0", "7">>,
   <<"9", "2", "2", "3", "3", "7", "2", "0", "3", "6", "8", "5", "4", "7", "7", "5", "8", "0", "8">>,
   <<"-", "9", "2", "2", "3", "3", "7", "2", "0", "3", "6", "8", "5", "4", "7", "7", "5", "8", "0", "8">>,
   <<"-", "9", "2", "2", "3", "3", "7", "2", "0", "3", "6", "8", "5", "4", "7", "7", "5", "8", "0", "9">>,
   <<"1", "8", "4", "4", "6", "7", "4", "4", "0", "7", "3", "7", "0", "9", "5", "5", "1", "6", "1", "5">>,
   <<"1", "8", "4", "4", "6", "7", "4", "4", "0", "7", "3", "7", "0", "9", "5", "5", "1", "6", "1", "6">>}

\* Largest fragment size and |fx|, |fy| asked of the entry points
MaxFragSize == 2

\* Largest number of seeds handed to generate_fragment_slime_map
MaxSeedTexts == 2

SeedTextLists ==
  UNION {[1 .. n -> SeedTexts] : n \in 0 .. MaxSeedTexts}

Extend48(s) ==
  /\ call = "none"
  /\ call' = "extend48"
  /\ arg' = [seeds |-> <<s>>, size |-> 0]
  /\ \E o \in extend48(s) : ret' = [r |-> o.r, extended |-> o.extended]
  /\ UNCHANGED rngVars

GenerateFragment(fx, fy, s, size) ==
  /\ call = "none"
  /\ call' = "generate_fragment"
  /\ arg' = [seeds |-> <<s>>, size |-> size]
  /\ ret' = [r |-> generate_fragment(fx, fy, s, size), extended |-> <<>>]
  /\ UNCHANGED rngVars

GenerateFragmentSlimeMap(fx, fy, seeds, size) ==
  /\ call = "none"
  /\ call' = "generate_fragment_slime_map"
  /\ arg' = [seeds |-> seeds, size |-> size]
  /\ ret' = [r |-> generate_fragment_slime_map(fx, fy, seeds, size), extended |-> <<>>]
  /\ UNCHANGED rngVars

WasmNext ==
  /\ call = "none"
  /\ \/ \E s \in SeedTexts : Extend48(s)
     \/ \E fx \in -1 .. 1, fy \in {0}, s \in SeedTexts, size \in 0 .. MaxFragSize :
          GenerateFragment(fx, fy, s, size)
     \/ \E fx \in {0}, fy \in -1 .. 1, seeds \in SeedTextLists,
           size \in 0 .. MaxFragSize :
          GenerateFragmentSlimeMap(fx, fy, seeds, size)

WasmInit == FnIdle /\ RngIdle

SpecWasm == WasmInit /\ [][WasmNext]_vars

\* The text is a seed the entry point takes
SeedTextAccepted(entry, text) ==
  IF entry = "extend48" THEN parse_u64(text).ok /\ ~Geq64(parse_u64(text).val, Two48)
  ELSE IF entry = "generate_fragment" THEN parse_i64(text).ok
  ELSE parse_u64(text).ok

\* The value reports a text that is no seed: an error text (extend48) or the
\* zero-filled image of frag_size * frag_size * 4 bytes
ReportsBadSeed(entry, value, size) ==
  IF entry = "extend48"
  THEN /\ value.kind = "error"
       /\ value.text \in {"cannot parse integer from empty string",
                          "invalid digit found in string",
                          "number too large to fit in target type",
                          "Input must be lower than 2^48"}
  ELSE value = Value("zeros", "", size * size * 4, <<>>)

\* C22: every entry point that receives seeds as text returns (it never
\* aborts), a text that cannot be parsed or is out of range is reported in the
\* value returned (an error text, or the zero-filled image of
\* frag_size * frag_size * 4 bytes), and extend48 calls extend_long_48 only for
\* inputs below 2^48.
C22_BadSeedsAreReportedNeverAbort ==
  call \in {"extend48", "generate_fragment", "generate_fragment_slime_map"} =>
    /\ ret.r.outcome = "returned"
    /\ (\E i \in 1 .. Len(arg.seeds) : ~SeedTextAccepted(call, arg.seeds[i]))
         => ReportsBadSeed(call, ret.r.value, arg.size)
    /\ \A i \in 1 .. Len(ret.extended) : ~Geq64(ret.extended[i], Two48)

\* extend48 and generate_fragment report every text that is no seed and abort on
\* none of them, and extend_long_48 is called only below 2^48
BadSeedsAreReportedBut_slime_map ==
  call \in {"extend48", "generate_fragment"} =>
    /\ (~SeedTextAccepted(call, arg.seeds[1]))
         => ret.r.outcome = "returned" /\ ReportsBadSeed(call, ret.r.value, arg.size)
    /\ SeedTextAccepted(call, arg.seeds[1]) /\ ret.r.outcome = "returned"
         => ~ReportsBadSeed(call, ret.r.value, arg.size)
    /\ \A i \in 1 .. Len(ret.extended) : ~Geq64(ret.extended[i], Two48)
    /\ call = "extend48" /\ SeedTextAccepted(call, arg.seeds[1])
         => ret.extended = <<parse_u64(arg.seeds[1]).val>>

\* generate_fragment_slime_map aborts exactly when a text is no u64, or when
\* there is no seed and the image has cells
SlimeMapAbortsOnBadSeed ==
  call = "generate_fragment_slime_map" =>
    (ret.r.outcome = "aborted") =
      \/ \E i \in 1 .. Len(arg.seeds) : ~parse_u64(arg.seeds[i]).ok
      \/ Len(arg.seeds) = 0 /\ arg.size > 0

(***************************************************************************)
(* MapZoom::get_map_from_pmap: the 2x2 block written for each parent cell  *)
(***************************************************************************)
\* The blocks of the zoomed map of a call, each with its parent cells and the
\* generator after set_chunk_seed
ZoomBlocks ==
  LET P == arg.pmap
      r == ZoomRng(arg.base_seed, arg.world_seed, arg.bug_world_seed_not_set)
  IN  {[x |-> c[1], z |-> c[2],
        a |-> P.a[<<c[1], c[2]>>], a1 |-> P.a[<<c[1] + 1, c[2]>>],
        b |-> P.a[<<c[1], c[2] + 1>>], b1 |-> P.a[<<c[1] + 1, c[2] + 1>>],
        r |-> set_chunk_seed(r, (c[1] + P.x) * 2, (c[2] + P.z) * 2)] :
         c \in Cells(P.w - 1, P.h - 1)}

\* The test zoom_island_match: the map has the area asked for and land exactly
\* at (0, 3), (1, 2), (2, 3), (2, 2), (3, 2)
ZoomIslandMatchExpected ==
  call = "zoom_island_match" =>
    ret.r = MapOf(-3, -2, 6, 4,
                  [c \in Cells(6, 4) |->
                     IF c \in {<<0, 3>>, <<1, 2>>, <<2, 3>>, <<2, 2>>, <<3, 2>>}
                     THEN 1 ELSE 0])

\* C23, as the code has it: for each parent 2x2 block a (x, z), a1 (x+1, z),
\* b (x, z+1), b1 (x+1, z+1), MapZoom writes a at (2x, 2z), the first draw
\* choose2(a, b) at (2x, 2z+1), the second draw choose2(a, a1) at (2x+1, 2z),
\* and at (2x+1, 2z+1) the third draw choose4(a, a1, b, b1) in fuzzy mode,
\* select_mode_or_random(a, a1, b, b1) otherwise.
C23_ZoomBlockDrawsBelowThenRight ==
  call \in {"rev_map_zoom", "zoom_island_match"} =>
    \A k \in ZoomBlocks :
      /\ ret.b.a[<<2 * k.x, 2 * k.z>>] = k.a
      /\ ret.b.a[<<2 * k.x, 2 * k.z + 1>>] = choose2(k.r, k.a, k.b)
      /\ ret.b.a[<<2 * k.x + 1, 2 * k.z>>] = choose2(mc_step(k.r), k.a, k.a1)
      /\ ret.b.a[<<2 * k.x + 1, 2 * k.z + 1>>] =
           IF arg.fuzzy THEN choose4(mc_step(mc_step(k.r)), k.a, k.a1, k.b, k.b1)
           ELSE select_mode_or_random(mc_step(mc_step(k.r)), k.a, k.a1, k.b, k.b1)

\* C23, as stated: the cell (2x+1, 2z) is a choice between a and b, and the
\* cell (2x, 2z+1) a choice between a and a1 (whatever the draws are).
C23_ZoomBlockAsStated ==
  call \in {"rev_map_zoom", "zoom_island_match"} =>
    \A k \in ZoomBlocks :
      /\ ret.b.a[<<2 * k.x, 2 * k.z>>] = k.a
      /\ ret.b.a[<<2 * k.x + 1, 2 * k.z>>] \in {k.a, k.b}
      /\ ret.b.a[<<2 * k.x, 2 * k.z + 1>>] \in {k.a, k.a1}
      /\ ret.b.a[<<2 * k.x + 1, 2 * k.z + 1>>] \in {k.a, k.a1, k.b, k.b1}

\* A block of four different parent cells, not fuzzy, whose two border cells
\* both drew their second operand and whose last cell is neither a nor b
C23_Witness ==
  /\ call = "rev_map_zoom" /\ ~arg.fuzzy
  /\ \E k \in ZoomBlocks :
       /\ Cardinality({k.a, k.a1, k.b, k.b1}) = 4
       /\ ret.b.a[<<2 * k.x, 2 * k.z + 1>>] = k.b
       /\ ret.b.a[<<2 * k.x + 1, 2 * k.z>>] = k.a1
       /\ ret.b.a[<<2 * k.x + 1, 2 * k.z + 1>>] \in {k.a1, k.b1}

(***************************************************************************)
(* src/src/biome_layers.rs: MapOceanMix, the ocean temperatures laid over  *)
(* the biomes                                                              *)
(***************************************************************************)
\* biome_info::biome_id: the ids of the biomes named here
biome_id ==
  [ocean |-> 0, plains |-> 1, frozenOcean |-> 10, deepOcean |-> 24,
   warmOcean |-> 44, lukewarmOcean |-> 45, coldOcean |-> 46, warmDeepOcean |-> 47,
   lukewarmDeepOcean |-> 48, coldDeepOcean |-> 49, frozenDeepOcean |-> 50]

is_oceanic(id) ==
  id \in {biome_id.ocean, biome_id.deepOcean, biome_id.warmOcean,
          biome_id.warmDeepOcean, biome_id.lukewarmOcean, biome_id.lukewarmDeepOcean,
          biome_id.coldOcean, biome_id.coldDeepOcean, biome_id.frozenOcean,
          biome_id.frozenDeepOcean}

\* The match on ocean_id of a cell whose land_id is deepOcean
deep_counterpart(ocean_id) ==
  IF ocean_id = biome_id.lukewarmOcean THEN biome_id.lukewarmDeepOcean
  ELSE IF ocean_id = biome_id.ocean THEN biome_id.deepOcean
  ELSE IF ocean_id = biome_id.coldOcean THEN biome_id.coldDeepOcean
  ELSE IF ocean_id = biome_id.frozenOcean THEN biome_id.frozenDeepOcean
  ELSE ocean_id

\* What a warm or frozen ocean becomes next to land
demoted(ocean_id) ==
  IF ocean_id = biome_id.warmOcean THEN biome_id.lukewarmOcean
  ELSE biome_id.coldOcean

\* The loops over i and j: some sampled cell of pmap1 is not oceanic
land_nearby(pmap1, x, z) ==
  \E i \in 0 .. 4, j \in 0 .. 4 : ~is_oceanic(pmap1.a[<<x + i * 4, z + j * 4>>])

\* The cell (x, z) of MapOceanMix with a demoted ocean going on to the match on
\* land_id
OceanMixCell_fallthrough(pmap1, pmap2, x, z) ==
  LET land_id == pmap1.a[<<x + 8, z + 8>>]
      ocean_id == pmap2.a[<<x, z>>]
      near == IF ocean_id \in {biome_id.warmOcean, biome_id.frozenOcean}
                   /\ land_nearby(pmap1, x, z)
              THEN demoted(ocean_id) ELSE ocean_id
  IN  IF ~is_oceanic(land_id) THEN land_id
      ELSE IF land_id = biome_id.deepOcean THEN deep_counterpart(near)
      ELSE near

\* The cell (x, z) of MapOceanMix::get_map_from_pmap12: a demoted ocean is
\* written and the loop goes on to the next cell (continue 'loop_z)
OceanMixCell(pmap1, pmap2, x, z) ==
  LET land_id == pmap1.a[<<x + 8, z + 8>>]
      ocean_id == pmap2.a[<<x, z>>]
  IN  IF ~is_oceanic(land_id) THEN land_id
      ELSE IF ocean_id \in {biome_id.warmOcean, biome_id.frozenOcean}
              /\ land_nearby(pmap1, x, z)
      THEN demoted(ocean_id)
      ELSE IF land_id = biome_id.deepOcean THEN deep_counterpart(ocean_id)
      ELSE ocean_id

\* MapOceanMix::get_map_from_pmap12; the assertion on the area of pmap1 fails
\* for a map of another area
MapOceanMix_get_map_from_pmap12(pmap1, pmap2) ==
  IF <<pmap1.x, pmap1.z, pmap1.w, pmap1.h>>
       # <<pmap2.x - 8, pmap2.z - 8, pmap2.w + 17, pmap2.h + 17>>
  THEN Err
  ELSE CHOOSE m \in
         {MapOf(p2.x, p2.z, p2.w, p2.h,
                [c \in Cells(p2.w, p2.h) |-> OceanMixCell(p1, p2, c[1], c[2])]) :
            p1 \in {pmap1}, p2 \in {pmap2}} : m = m

\* Largest width and height of the ocean map
MaxMixSize == 2

\* Ocean temperatures of the ocean parent (and one value that is no ocean)
MixOceanIds ==
  {biome_id.ocean, biome_id.warmOcean, biome_id.lukewarmOcean, biome_id.coldOcean,
   biome_id.frozenOcean, biome_id.plains}

\* Cells of the biome parent that are set apart from the rest: the cells the two
\* first ocean cells sample, and three that no cell samples
MixPositions ==
  {<<4 * i, 4 * j>> : i \in 0 .. 4, j \in 0 .. 4}
    \cup {<<4 * i, 4 * j + 1>> : i \in 0 .. 4, j \in 0 .. 4}
    \cup {<<1, 2>>, <<3, 3>>, <<17, 17>>}

\* MapOceanMix::get_map for an ocean parent of equal cells and a biome parent of
\* equal cells but one
OceanMix(x0, z0, w, h, ocean_id, base, other, p) ==
  /\ call = "none"
  /\ call' = "MapOceanMix"
  /\ \E pmap1 \in {MapOf(x0 - 8, z0 - 8, w + 17, h + 17,
                         [c \in Cells(w + 17, h + 17) |->
                            IF c = p THEN other ELSE base])},
        pmap2 \in {MapOf(x0, z0, w, h, [c \in Cells(w, h) |-> ocean_id])} :
       /\ arg' = [pmap1 |-> pmap1, pmap2 |-> pmap2]
       /\ ret' = MapOceanMix_get_map_from_pmap12(pmap1, pmap2)
  /\ UNCHANGED rngVars

MixNext ==
  /\ call = "none"
  /\ \E x0 \in {0, -3}, z0 \in {0, 5}, w \in {1}, h \in 1 .. MaxMixSize,
        ocean_id \in MixOceanIds,
        base \in {biome_id.ocean, biome_id.deepOcean},
        other \in {biome_id.plains, biome_id.deepOcean, biome_id.ocean},
        p \in MixPositions :
       OceanMix(x0, z0, w, h, ocean_id, base, other, p)

MixInit == FnIdle /\ RngIdle

SpecMix == MixInit /\ [][MixNext]_vars

\* The biome parent at the world coordinates (x, z)
LandAt(x, z) == arg.pmap1.a[<<x - arg.pmap1.x, z - arg.pmap1.z>>]

\* Some biome-parent cell at the offsets -8, -4, 0, 4, 8 from (x, z) is not
\* oceanic
LandWithin8(x, z) ==
  \E dx \in {-8, -4, 0, 4, 8}, dz \in {-8, -4, 0, 4, 8} :
    ~is_oceanic(LandAt(x + dx, z + dz))

\* The ocean map is returned with the area of the ocean parent
MixReturned == call = "MapOceanMix" /\ ret.ok

\* C24, as the code has it: a cell whose biome parent is not oceanic takes the
\* biome-parent value; an oceanic cell whose ocean temperature is warm or
\* frozen and that has a non-oceanic biome-parent cell at the offsets -8, -4,
\* 0, 4, 8 becomes lukewarm resp. cold and stays so, deep ocean or not; any
\* other oceanic cell whose biome parent is deep_ocean takes the deep
\* counterpart of its ocean temperature (warm has none and stays), and the rest
\* keep the ocean temperature.
C24_DemotedOceanIsNeverDeepened ==
  call = "MapOceanMix" =>
    /\ ret.ok /\ Map_area(ret) = Map_area(arg.pmap2)
    /\ \A c \in Cells(ret.w, ret.h) :
         LET x == ret.x + c[1]
             z == ret.z + c[2]
             o == arg.pmap2.a[c]
         IN  ret.a[c] =
               IF ~is_oceanic(LandAt(x, z)) THEN LandAt(x, z)
               ELSE IF o = biome_id.warmOcean /\ LandWithin8(x, z)
               THEN biome_id.lukewarmOcean
               ELSE IF o = biome_id.frozenOcean /\ LandWithin8(x, z)
               THEN biome_id.coldOcean
               ELSE IF LandAt(x, z) = biome_id.deepOcean THEN deep_counterpart(o)
               ELSE o

\* C24, as stated: the ocean temperature is first demoted next to land, and
\* then, under a deep_ocean biome parent, the resulting value, a value just
\* demoted included, is replaced by its deep counterpart.
C24_DemotedThenDeepened ==
  call = "MapOceanMix" =>
    \A c \in Cells(ret.w, ret.h) :
      LET x == ret.x + c[1]
          z == ret.z + c[2]
          o == arg.pmap2.a[c]
          first == IF o \in {biome_id.warmOcean, biome_id.frozenOcean}
                        /\ LandWithin8(x, z)
                   THEN demoted(o) ELSE o
      IN  ret.a[c] =
            IF ~is_oceanic(LandAt(x, z)) THEN LandAt(x, z)
            ELSE IF LandAt(x, z) = biome_id.deepOcean THEN deep_counterpart(first)
            ELSE first

\* A warm ocean cell over deep_ocean with land eight cells away, which comes
\* out lukewarm, beside a cell that has no land in reach and stays warm
C24_Witness ==
  /\ call = "MapOceanMix" /\ ret.ok /\ ret.h = 2
  /\ arg.pmap2.a[<<0, 0>>] = biome_id.warmOcean
  /\ LandAt(ret.x, ret.z) = biome_id.deepOcean
  /\ LandAt(ret.x - 8, ret.z + 8) = biome_id.plains
  /\ ret.a[<<0, 0>>] = biome_id.lukewarmOcean
  /\ ret.a[<<0, 1>>] = biome_id.warmOcean

(***************************************************************************)
(* src/src/biome_layers.rs: reduce_id and MapRiver                         *)
(***************************************************************************)
\* reduce_id: 2 + (id & 1) from 2 on, the id itself below 2
reduce_id(id) == IF id >= 2 THEN 2 + (id % 2) ELSE id

\* MapRiver::get_map_from_pmap
MapRiver_get_map_from_pmap(pmap) ==
  CHOOSE m \in
    {MapOf(p.x + 1, p.z + 1, p.w - 2, p.h - 2,
           [c \in Cells(p.w - 2, p.h - 2) |->
              LET v11 == reduce_id(p.a[<<c[1] + 1, c[2] + 1>>])
                  v10 == reduce_id(p.a[<<c[1] + 1, c[2] + 0>>])
                  v21 == reduce_id(p.a[<<c[1] + 2, c[2] + 1>>])
                  v01 == reduce_id(p.a[<<c[1] + 0, c[2] + 1>>])
                  v12 == reduce_id(p.a[<<c[1] + 1, c[2] + 2>>])
              IN  IF v11 = v01 /\ v11 = v10 /\ v11 = v21 /\ v11 = v12
                  THEN -1 ELSE river]) : p \in {pmap}} : m = m

\* Largest width of the parent map of MapRiver (its height is 3)
MaxRiverWidth == 4

\* Cell values: the ends of the i32 range, -1, and small ids of both parities
RiverIds == {-2147483647 - 1, -1, 0, 1, 2, 3, 4, 2147483647}

\* Parent maps: a stencil of any five values with corners of 0, and wider maps
\* of two values
RiverParents ==
  {MapOf(x, z, 3, 3,
         [c \in Cells(3, 3) |->
            IF c = <<1, 1>> THEN v[1] ELSE IF c = <<1, 0>> THEN v[2]
            ELSE IF c = <<2, 1>> THEN v[3] ELSE IF c = <<0, 1>> THEN v[4]
            ELSE IF c = <<1, 2>> THEN v[5] ELSE 0]) :
     x \in {-1}, z \in {2}, v \in [1 .. 5 -> {-1, 0, 1, 2, 3, 4, 2147483647}]}
  \cup
  {MapOf(x, z, w, 3,
         [c \in Cells(w, 3) |-> IF c \in s THEN u ELSE v]) :
     x \in {0}, z \in {0}, w \in 2 .. MaxRiverWidth,
     s \in {{<<1, 1>>}, {<<0, 0>>, <<2, 2>>}, {<<2, 1>>, <<1, 2>>}, {<<0, 1>>}},
     u \in RiverIds, v \in RiverIds}

MapRiverFromPmap(pmap) ==
  /\ call = "none"
  /\ call' = "MapRiver"
  /\ arg' = [pmap |-> pmap]
  /\ ret' = MapRiver_get_map_from_pmap(pmap)
  /\ UNCHANGED rngVars

RiverNext ==
  /\ call = "none"
  /\ \E pmap \in RiverParents : MapRiverFromPmap(pmap)

RiverInit == FnIdle /\ RngIdle

SpecRiver == RiverInit /\ [][RiverNext]_vars

\* The values of the centre and of its four orthogonal neighbours in the parent
\* map, for the cell c of the map returned
RiverCentre(c) == arg.pmap.a[<<c[1] + 1, c[2] + 1>>]

RiverNeighbours(c) ==
  {arg.pmap.a[<<c[1] + 1 + d[1], c[2] + 1 + d[2]>>] :
     d \in {<<0, -1>>, <<1, 0>>, <<-1, 0>>, <<0, 1>>}}

\* C25: whatever 32-bit values the parent map holds, the five stencil cells of
\* every cell are each classified by reduce_id into one of the classes 0, 1, 2,
\* 3, and MapRiver writes river (7) exactly when the class of one of the four
\* orthogonal neighbours differs from the class of the centre, -1 otherwise.
C25_FourClassesAndRiverWhereTheyDiffer ==
  call = "MapRiver" =>
    \A c \in Cells(ret.w, ret.h) :
      /\ \A v \in RiverNeighbours(c) \cup {RiverCentre(c)} : reduce_id(v) \in 0 .. 3
      /\ ret.a[c] = IF \E v \in RiverNeighbours(c) :
                         reduce_id(v) # reduce_id(RiverCentre(c))
                    THEN river ELSE -1

\* MapRiver writes river exactly where reduce_id tells a neighbour from the
\* centre, and -1 elsewhere; the map has the area of the parent without its
\* border
RiverWhereReducedIdsDiffer ==
  call = "MapRiver" =>
    /\ Map_area(ret) = Area(arg.pmap.x + 1, arg.pmap.z + 1, arg.pmap.w - 2, 1)
    /\ \A c \in Cells(ret.w, ret.h) :
         ret.a[c] = IF \E v \in RiverNeighbours(c) :
                         reduce_id(v) # reduce_id(RiverCentre(c))
                    THEN river ELSE -1

\* reduce_id has the four classes 0 .. 3 on the ids from 0 on, and returns a
\* negative id unchanged
ReduceIdOfNonNegativeIds ==
  call = "MapRiver" =>
    \A c \in Cells(arg.pmap.w, arg.pmap.h) :
      LET v == arg.pmap.a[c]
      IN  IF v >= 0 THEN reduce_id(v) \in 0 .. 3 /\ (v >= 2 => reduce_id(v) = 2 + (v % 2))
          ELSE reduce_id(v) = v

(***************************************************************************)
(* src/src/biome_layers.rs: color_variant_channel, the shade of a channel  *)
(* of a map colour                                                         *)
(***************************************************************************)
\* The factors [180, 220, 255, 135] of the variants 0 .. 3
variant_factor == <<180, 220, 255, 135>>

\* u16 arithmetic: the result of an operation, and whether it left the range
\* (a build with overflow checks panics there, another wraps)
U16(x, overflow) == [val |-> x % 65536, overflow |-> overflow \/ x >= 65536]

\* color_variant_channel without the rounding: x *= factor; x /= 256
color_variant_channel_floor(channel, variant) ==
  LET x1 == U16(channel * variant_factor[variant + 1], FALSE)
  IN  [val |-> (x1.val \div 256) % 256, overflow |-> x1.overflow]

\* color_variant_channel: x *= factor; x += 128; x /= 256; x as u8
color_variant_channel(channel, variant) ==
  LET x1 == U16(channel * variant_factor[variant + 1], FALSE)
      x2 == U16(x1.val + 128, x1.overflow)
  IN  [val |-> (x2.val \div 256) % 256, overflow |-> x2.overflow]

\* Largest channel value (a u8)
MaxChannel == 255

ColorVariantChannel(channel, variant) ==
  /\ call = "none"
  /\ call' = "color_variant_channel"
  /\ arg' = [channel |-> channel, variant |-> variant]
  /\ \E r \in {color_variant_channel(channel, variant)} :
       ret' \in {[ok |-> TRUE, val |-> r.val]}
                  \cup (IF r.overflow THEN {[ok |-> FALSE, val |-> 0]} ELSE {})
  /\ UNCHANGED rngVars

ColorNext ==
  /\ call = "none"
  /\ \E channel \in 0 .. MaxChannel, variant \in 0 .. 3 :
       ColorVariantChannel(channel, variant)

ColorInit == FnIdle /\ RngIdle

SpecColor == ColorInit /\ [][ColorNext]_vars

\* The factor k of a variant: 180, 220, 255, 135 for 0, 1, 2, 3
FactorOf(v) == IF v = 0 THEN 180 ELSE IF v = 1 THEN 220 ELSE IF v = 2 THEN 255 ELSE 135

\* C26, as the code has it: for every channel in 0..=255 and variant in 0..=3,
\* color_variant_channel returns (channel * k + 128) / 256 in integer
\* arithmetic, the product over 256 rounded to the nearest integer, and the
\* 16-bit intermediate never overflows.
C26_ChannelTimesFactorRounded ==
  call = "color_variant_channel" =>
    /\ ret.ok
    /\ ret.val = (arg.channel * FactorOf(arg.variant) + 128) \div 256
    /\ arg.channel * FactorOf(arg.variant) + 128 < 65536

\* C26, as stated: color_variant_channel returns channel * k / 256 in integer
\* arithmetic, and the 16-bit intermediate never overflows.
C26_ChannelTimesFactorOver256 ==
  call = "color_variant_channel" =>
    /\ ret.ok
    /\ ret.val = (arg.channel * FactorOf(arg.variant)) \div 256

\* The largest product, 255 * 255 = 65025: with the 128 added it is 65153,
\* still a u16, and the channel returned is 254
C26_Witness ==
  /\ call = "color_variant_channel"
  /\ arg.channel = 255 /\ arg.variant = 2
  /\ ret.ok /\ ret.val = 254

(***************************************************************************)
(* MapZoom with bug_world_seed_not_set, and the layers of                  *)
(* generator_up_to_layer_1_7 that carry the flag                           *)
(***************************************************************************)
\* One MapZoom of a generator: MapZoom::new(base_seed, world_seed), fuzzy and
\* bug_world_seed_not_set as the generator sets them
Zoom(base_seed, fuzzy, bug) ==
  [base_seed |-> base_seed, fuzzy |-> fuzzy, bug_world_seed_not_set |-> bug]

\* The MapZoom layers of generator_up_to_layer_1_7
zoom_1_7 ==
  "g1" :> Zoom(2000, TRUE, FALSE) @@ "g3" :> Zoom(2001, FALSE, FALSE) @@
  "g13" :> Zoom(2002, FALSE, FALSE) @@ "g14" :> Zoom(2003, FALSE, FALSE) @@
  "g19" :> Zoom(1000, FALSE, FALSE) @@ "g20" :> Zoom(1001, FALSE, FALSE) @@
  "g23" :> Zoom(1000, FALSE, TRUE) @@ "g24" :> Zoom(1001, FALSE, TRUE) @@
  "g27" :> Zoom(1000, FALSE, FALSE) @@ "g29" :> Zoom(1001, FALSE, FALSE) @@
  "g31" :> Zoom(1002, FALSE, FALSE) @@ "g32" :> Zoom(1003, FALSE, FALSE) @@
  "g34" :> Zoom(1000, FALSE, FALSE) @@ "g35" :> Zoom(1001, FALSE, FALSE) @@
  "g36" :> Zoom(1000, FALSE, FALSE) @@ "g37" :> Zoom(1001, FALSE, FALSE) @@
  "g38" :> Zoom(1002, FALSE, FALSE) @@ "g39" :> Zoom(1003, FALSE, FALSE)

\* Pairs of world seeds of two instances
WorldSeedPairs ==
  {<<Zero64, TestWorldSeed>>, <<TestWorldSeed, One64>>, <<One64, One64>>}

\* Parent maps of the two instances: maps of distinct cells and of columns
BugParentMaps ==
  {p \in ParentMaps :
     /\ p.x = -1
     /\ \/ Cardinality({p.a[c] : c \in DOMAIN p.a}) = p.w * p.h
        \/ Cardinality({p.a[c] : c \in DOMAIN p.a}) = 2}

\* Two instances of one MapZoom layer of generator_up_to_layer_1_7, built for two
\* world seeds, asked for the map of the same parent map
ZoomTwice(layer, world_seeds, pmap) ==
  /\ call = "none"
  /\ call' = "MapZoom_twice"
  /\ arg' = [layer |-> layer, world_seeds |-> world_seeds, pmap |-> pmap]
  /\ ret' = [i \in 1 .. 2 |->
               MapZoom_get_map_from_pmap(zoom_1_7[layer].base_seed, world_seeds[i],
                                         zoom_1_7[layer].fuzzy,
                                         zoom_1_7[layer].bug_world_seed_not_set, pmap)]
  /\ UNCHANGED rngVars

BugNext ==
  /\ call = "none"
  /\ \E layer \in DOMAIN zoom_1_7, world_seeds \in WorldSeedPairs,
        pmap \in BugParentMaps :
       ZoomTwice(layer, world_seeds, pmap)

BugInit == FnIdle /\ RngIdle

SpecBug == BugInit /\ [][BugNext]_vars

\* The MapZoom layers from a layer down its first parents, as long as they are
\* MapZoom layers, and the layer the chain ends on
RECURSIVE ZoomChain(_)
ZoomChain(layer) ==
  IF generator_1_7[layer].kind = "MapZoom"
  THEN {layer} \cup ZoomChain(generator_1_7[layer].p1)
  ELSE {}

RECURSIVE ZoomChainEnd(_)
ZoomChainEnd(layer) ==
  IF generator_1_7[layer].kind = "MapZoom"
  THEN ZoomChainEnd(generator_1_7[layer].p1)
  ELSE generator_1_7[layer].kind

\* C27: two instances of a MapZoom with bug_world_seed_not_set that have the
\* same base seed, mode and parent map return the same map whatever their
\* world seeds are; and in generator_up_to_layer_1_7 the layers that carry the
\* flag are exactly the two MapZoom layers between MapRiverInit and the second
\* parent of MapHills.
C27_FlaggedZoomIgnoresWorldSeed ==
  call = "MapZoom_twice" =>
    /\ zoom_1_7[arg.layer].bug_world_seed_not_set => ret[1] = ret[2]
    /\ DOMAIN zoom_1_7 = {l \in DOMAIN generator_1_7 : generator_1_7[l].kind = "MapZoom"}
    /\ \A hills \in {l \in DOMAIN generator_1_7 : generator_1_7[l].kind = "MapHills"} :
         /\ {l \in DOMAIN zoom_1_7 : zoom_1_7[l].bug_world_seed_not_set}
              = ZoomChain(generator_1_7[hills].p2)
         /\ Cardinality(ZoomChain(generator_1_7[hills].p2)) = 2
         /\ ZoomChainEnd(generator_1_7[hills].p2) = "MapRiverInit"
    /\ \E hills \in DOMAIN generator_1_7 : generator_1_7[hills].kind = "MapHills"

\* The layer below MapHills, for two different world seeds and a parent of
\* nine different cells: the maps are equal and hold drawn cells
C27_Witness ==
  /\ call = "MapZoom_twice"
  /\ arg.layer = "g24" /\ arg.world_seeds = <<Zero64, TestWorldSeed>>
  /\ arg.pmap.w = 3 /\ arg.pmap.h = 3
  /\ Cardinality({arg.pmap.a[c] : c \in DOMAIN arg.pmap.a}) = 9
  /\ ret[1] = ret[2]
  /\ ret[1].a[<<1, 1>>] # ret[1].a[<<0, 0>>]

\* A layer without the flag and with the base seed of g24 returns different
\* maps for different world seeds
UnflaggedZoomDependsOnWorldSeed ==
  /\ call = "MapZoom_twice"
  /\ arg.layer = "g20" /\ arg.world_seeds = <<Zero64, TestWorldSeed>>
  /\ ret[1] # ret[2]

(***************************************************************************)
(* reverse_map_zoom called on observed maps of even and odd origins        *)
(***************************************************************************)
\* Largest |x|, |z| of the origin of a map handed to reverse_map_zoom
MaxUnzoomCoord == 3

\* Largest width and height of a map handed to reverse_map_zoom
MaxUnzoomSize == 4

\* A parent map whose cells are marked with their coordinates
MarkedParent(area) ==
  MapOf(area.x, area.z, area.w, area.h,
        [c \in Cells(area.w, area.h) |-> Mark(area.x + c[1], area.z + c[2])])

\* reverse_map_zoom(m) for an observed map whose cells are marked with their
\* world coordinates
ReverseMapZoom(m) ==
  /\ call = "none"
  /\ call' = "reverse_map_zoom"
  /\ arg' = [m |-> m, zoomed |-> FALSE]
  /\ ret' = reverse_map_zoom(m)
  /\ UNCHANGED rngVars

\* reverse_map_zoom(MapZoom.get_map(area)) over a parent whose cells are marked
\* with their coordinates
ReverseZoomed(area) ==
  /\ call = "none"
  /\ call' = "reverse_map_zoom"
  /\ \E m \in {MapZoom_get_map(10, TestWorldSeed, FALSE, FALSE,
                               MarkedParent(ParentArea("MapZoom", area)), area)} :
       /\ arg' = [m |-> m, zoomed |-> TRUE]
       /\ ret' = reverse_map_zoom(m)
  /\ UNCHANGED rngVars

UnzoomNext ==
  \/ \E x \in -MaxUnzoomCoord .. MaxUnzoomCoord, z \in -MaxUnzoomCoord .. MaxUnzoomCoord,
        w \in 0 .. MaxUnzoomSize, h \in 0 .. MaxUnzoomSize :
       ReverseMapZoom(MarkedParent(Area(x, z, w, h)))
  \/ \E x \in -MaxUnzoomCoord .. MaxUnzoomCoord, z \in {-1, 0},
        w \in 2 .. MaxUnzoomSize, h \in {2, 3} :
       ReverseZoomed(Area(x, z, w, h))

UnzoomInit == FnIdle /\ RngIdle

SpecUnzoom == UnzoomInit /\ [][UnzoomNext]_vars

\* C28: for every observed map m, of even or odd origin, the cell of
\* reverse_map_zoom(m) labelled with the parent coordinate (px, pz) holds the
\* value of m at the world coordinate (2 px, 2 pz), the copied top-left cell of
\* the zoom block (px, pz), and no read falls outside m.
C28_CellHoldsTopLeftOfItsBlock ==
  call = "reverse_map_zoom" =>
    \A c \in DOMAIN ret.a :
      LET px == ret.x + c[1]
          pz == ret.z + c[2]
      IN  /\ contains(Map_area(arg.m), 2 * px, 2 * pz)
          /\ ret.a[c] = get(arg.m, 2 * px, 2 * pz)

\* What holds for every origin: the map returned has half the sides and the
\* halved origin (rounded down), every read is inside m, and the cell labelled
\* (px, pz) holds the value of m at (2 (px + (m.x & 1)), 2 (pz + (m.z & 1))):
\* the top-left cell of its own block for an even origin, of the next block
\* for an odd one
CellHoldsTopLeftOfItsBlockOrTheNext ==
  call = "reverse_map_zoom" =>
    LET m == arg.m
    IN  /\ Map_area(ret) = Area(m.x \div 2, m.z \div 2, m.w \div 2, m.h \div 2)
        /\ DOMAIN ret.a = Cells(ret.w, ret.h)
        /\ \A c \in DOMAIN ret.a :
             LET wx == 2 * (ret.x + c[1] + (m.x % 2))
                 wz == 2 * (ret.z + c[2] + (m.z % 2))
             IN  /\ contains(Map_area(m), wx, wz)
                 /\ ret.a[c] = get(m, wx, wz)
        /\ (m.x % 2 = 0 /\ m.z % 2 = 0) =>
             \A c \in DOMAIN ret.a :
               ret.a[c] = get(m, 2 * (ret.x + c[1]), 2 * (ret.z + c[2]))

\* Over a zoomed map the cell labelled (px, pz) holds the parent's cell
\* (px + (m.x & 1), pz + (m.z & 1))
ZoomedCellHoldsParentOrTheNext ==
  call = "reverse_map_zoom" /\ arg.zoomed =>
    \A c \in DOMAIN ret.a :
      ret.a[c] = Mark(ret.x + c[1] + (arg.m.x % 2), ret.z + c[2] + (arg.m.z % 2))

(***************************************************************************)
(* The target maps of river_seed_finder_26_range and the order of the      *)
(* fragments                                                               *)
(***************************************************************************)
\* The lists of target maps the sort, truncate(10) and retain can leave, one for
\* each order in which split_rivers_into_fragments can yield the fragments
TargetLists(points) == {retained(T) : T \in truncated(target_maps_derived(points))}

\* C29: the target maps river_seed_finder_26_range selects, and so the seeds it
\* returns, are determined by the river points alone, whatever the order of the
\* fragments, also when more fragments than the limit tie at the truncation
\* boundary: every order leaves the same target maps, and two calls with the
\* same points and the same range return the same list.
C29_TargetsDeterminedByPoints ==
  call \in {"range_whole", "range_left", "range_right"} =>
    /\ Cardinality(TargetLists(arg.points)) = 1
    /\ call = "range_left" /\ arg.mid = arg.range_hi => ret[1] = ret[2]

\* With at most ten fragments every order leaves the same target maps, and two
\* calls with the same points and range return the same list
TargetsDeterminedUpToTenFragments ==
  (/\ call \in {"range_whole", "range_left", "range_right"}
   /\ Cardinality(target_maps_derived(arg.points)) <= 10) =>
    /\ Cardinality(TargetLists(arg.points)) = 1
    /\ call = "range_left" /\ arg.mid = arg.range_hi => ret[1] = ret[2]

(***************************************************************************)
(* src/src/biome_layers.rs: river_seed_finder_range called on              *)
(* [range_lo, range_hi), then on [range_lo, mid) and on [mid, range_hi).   *)
(* The maps generate_up_to_layer returns are not computed here: whether    *)
(* the rivers generated for a bits cover a target map is an input, the     *)
(* same for the three calls, and extra_biomes is the empty list.  The two  *)
(* loops over the bits above a candidate run over their first values.      *)
(***************************************************************************)
\* The values tried of `for seed in 0..(1 << (34 - 26))`
MaxSeed8 == 1

\* The values tried of `for seed in 0..(1 << (48 - 34))`
MaxSeed14 == 2

\* The river cells of a fragment, counted from its corner: the cells
\* MapVoronoiZoom::new(10, 1) zooms the one river cell (27, 40) of a 4x4 map
\* at (26, 39) to, four cells beside them, and (4, 4), the only cell that
\* reverse_map_voronoi_zoom reads
BlobCells ==
  <<<<0, 1>>, <<1, 0>>, <<2, 3>>, <<2, 4>>, <<2, 5>>, <<3, 3>>, <<3, 4>>, <<3, 5>>,
    <<3, 6>>, <<3, 7>>, <<4, 3>>, <<4, 4>>, <<4, 5>>, <<4, 6>>, <<4, 7>>, <<5, 3>>,
    <<5, 4>>, <<5, 5>>, <<5, 6>>, <<5, 7>>, <<6, 3>>, <<6, 4>>, <<6, 5>>, <<6, 6>>,
    <<6, 7>>, <<7, 3>>, <<7, 4>>, <<7, 5>>, <<7, 6>>, <<7, 7>>, <<11, 5>>, <<13, 13>>>>

\* The river points of the fragment with its corner at (106 + 64 k, 158)
BlobAt(k) ==
  [n \in 1..Len(BlobCells) |-> <<106 + 64 * k + BlobCells[n][1], 158 + BlobCells[n][2]>>]

\* The river points of the first n fragments: copies of one fragment, each in
\* a bucket of its own
RECURSIVE BlobPoints(_)
BlobPoints(n) == IF n = 0 THEN <<>> ELSE BlobPoints(n - 1) \o BlobAt(n - 1)

\* The lists river_coords_voronoi the finder is called with
BlobPointLists == {BlobPoints(n) : n \in 0..5}

\* slice_to_area
slice_to_area(m, a) == slice_collapse(m, a.x - m.x, a.z - m.z, a)

\* What the loop over river_fragments pushes to target_maps_hd for the
\* fragment f: nothing when reverse_map_voronoi_zoom refuses it or when the
\* zoomed map is too small
target_map_hd(f) ==
  CHOOSE pushed \in
    {IF d = Err THEN {}
     ELSE CHOOSE p \in
            {IF a.w <= 2 \/ a.h <= 2 THEN {}
             ELSE {[map |-> d, sliced |-> e, rivers |-> count_rivers(e)] :
                     e \in {HelperMapRiverAll_get_map_from_pmap(slice_to_area(f, a))}} :
               a \in {Map_area(MapVoronoiZoom_get_map_from_pmap(10, FromNat(1234), d))}} :
            TRUE :
       d \in {reverse_map_voronoi_zoom(f)}} : TRUE

\* What target_map_hd gives for each fragment of the lists tried
targets_hd_pushed ==
  CHOOSE pushed \in
    {[f \in split_rivers_into_fragments(BlobPoints(5)) |-> target_map_hd(f)]} :
      pushed = pushed

\* target_maps_hd before the sort, in any order
target_maps_hd_pushed(points) ==
  UNION {targets_hd_pushed[f] : f \in split_rivers_into_fragments(points)}

\* sort_unstable_by_key(!rivers) and truncate(4): the maps that can be kept.
\* Among maps with the same count the sort keeps whichever the order of the
\* Vec puts first
truncated_hd(pushed) ==
  UNION {{T \in SUBSET d :
            /\ Cardinality(T) = (IF Cardinality(d) < 4 THEN Cardinality(d) ELSE 4)
            /\ \A t \in T, u \in d \ T : t.rivers >= u.rivers} :
         d \in {pushed}}

\* retain(rivers >= 40), as the sorted Vec; maps with the same count are
\* listed in a fixed order, which no later step depends on
RECURSIVE retained_hd(_)
retained_hd(T) ==
  IF \A t \in T : t.rivers < 40 THEN <<>>
  ELSE CHOOSE targets \in
         {<<first>> \o retained_hd(T0 \ {first}) :
            T0 \in {T},
            first \in {CHOOSE t \in T : t.rivers >= 40 /\ \A u \in T : t.rivers >= u.rivers}} :
           TRUE

\* target_maps_hd: the lists the sort, truncate(4) and retain can leave
target_maps_hd(points) == {retained_hd(T) : T \in truncated_hd(target_maps_hd_pushed(points))}

\* x | (bits << 26) for a 26-bit x
with_seed_26(x, bits) == <<x[1], x[2], x[3] + bits * 4, 0, 0, 0>>

\* x | (bits << 34) for a 34-bit x
with_seed_34(x, bits) == <<x[1], x[2], x[3] + (bits % 4) * 1024, bits \div 4, 0, 0>>

\* The 26-bit seeds candidates_26 can hold
Candidates26 ==
  CandidateSeeds \cup {Low26(similar_biome_seed(x)) : x \in CandidateSeeds}

\* candidate_score of every world seed tried, for each target map: the two
\* layers keep no state
candidate_scores ==
  CHOOSE score \in
    {[x \in Candidates26, bits \in 0..(MaxSeed8 - 1),
      t \in target_maps_hd_pushed(BlobPoints(5)) |->
        count_rivers_and(
            HelperMapRiverAll_get_map_from_pmap(
                MapVoronoiZoom_get_map_from_pmap(10, with_seed_26(x, bits), t.map)),
            t.sliced)]} : score = score

\* candidate_score >= target_score_voronoi_sliced * 90 / 100 for the target t
voronoi_match(x, bits, t) == candidate_scores[x, bits, t] >= (t.rivers * 90) \div 100

\* The loop 'nextseed of candidates_34 from the value bits of the 8 bits on: what it pushes
\* to v for the 26-bit candidate x
RECURSIVE seeds_34(_, _, _)
seeds_34(x, bits, targets) ==
  IF bits >= MaxSeed8 THEN <<>>
  ELSE (IF \E k \in DOMAIN targets : voronoi_match(x, bits, targets[k])
        THEN <<with_seed_26(x, bits)>> ELSE <<>>)
       \o seeds_34(x, bits + 1, targets)

\* candidates_34: the flat_map over candidates_26
RECURSIVE candidates_34(_, _)
candidates_34(c26, targets) ==
  IF c26 = <<>> THEN <<>>
  ELSE seeds_34(Head(c26), 0, targets) \o candidates_34(Tail(c26), targets)

\* One call of extend_long_48: the longs it returns, and whether a build with
\* overflow checks panics in it
extended_48(l) ==
  CHOOSE e \in
    {[longs |-> (CHOOSE o \in outs : o.ok).longs, panics |-> \E o \in outs : ~o.ok] :
       outs \in {extend_long_48(l)}} : TRUE

\* The 34-bit seeds candidates_34 can hold: those that match a target map
Candidates34 ==
  {with_seed_26(c[1], c[2]) :
     c \in {c \in Candidates26 \X (0..(MaxSeed8 - 1)) :
              \E t \in target_maps_hd_pushed(BlobPoints(5)) : voronoi_match(c[1], c[2], t)}}

\* extend_long_48 for every world seed it is called with, which keeps no state
extended_longs ==
  CHOOSE longs \in
    {[x \in Candidates34, bits \in 0..(MaxSeed14 - 1) |->
        extended_48(with_seed_34(x, bits))]} : longs = longs

\* The loop over the 14 bits from the value bits of them on: v.extend(..) for the
\* 34-bit candidate x
RECURSIVE seeds_64(_, _)
seeds_64(x, bits) ==
  IF bits >= MaxSeed14 THEN [longs |-> <<>>, panics |-> FALSE]
  ELSE CHOOSE v \in
         {[longs |-> e.longs \o rest.longs, panics |-> e.panics \/ rest.panics] :
            e \in {extended_longs[x, bits]},
            rest \in {seeds_64(x, bits + 1)}} : TRUE

\* The flat_map over candidates_34
RECURSIVE extended_64(_)
extended_64(c34) ==
  IF c34 = <<>> THEN [longs |-> <<>>, panics |-> FALSE]
  ELSE CHOOSE v \in
         {[longs |-> e.longs \o rest.longs, panics |-> e.panics \/ rest.panics] :
            e \in {seeds_64(Head(c34), 0)},
            rest \in {extended_64(Tail(c34))}} : TRUE

\* count_rivers_and(&g42, &target_map): every river of the target map when
\* the rivers generated cover it, none otherwise
g42_score(generated, target_map) == IF generated THEN count_rivers(target_map) ELSE 0

\* The filter_map of candidates_64 with no extra biomes: the long is skipped
\* when a target map scores under target_score * 90 / 100; hits >= target is
\* 0 >= 0
filter_64(longs, targets, generated) ==
  IF \A k \in DOMAIN targets :
       ~(g42_score(generated, targets[k].map)
           < (count_rivers(targets[k].map) * 90) \div 100)
  THEN longs ELSE <<>>

\* a < b on u64
LessU64(a, b) == \E k \in 1..6 : a[k] < b[k] /\ \A l \in (k + 1)..6 : a[l] = b[l]

\* a < b on i64
LessI64(a, b) == IF IsNegI64(a) # IsNegI64(b) THEN IsNegI64(a) ELSE LessU64(a, b)

\* sort_unstable on a Vec<i64>
RECURSIVE sort_unstable(_)
sort_unstable(v) ==
  IF v = <<>> THEN <<>>
  ELSE CHOOSE sorted \in
         {<<v[k]>> \o sort_unstable([n \in 1..(Len(v) - 1) |-> IF n < k THEN v[n] ELSE v[n + 1]]) :
            k \in {CHOOSE k \in DOMAIN v : \A l \in DOMAIN v : ~LessI64(v[l], v[k])}} : TRUE

\* The call did not return: a next_long of extend_long_48 overflowed
Overflowed == [ok |-> FALSE, seeds |-> <<>>]

\* river_seed_finder_range from candidates_26 on, for the target maps kept
range_outcomes(c26, targets, generated) ==
  CHOOSE outcomes \in
    {{[ok |-> TRUE, seeds |-> sort_unstable(filter_64(e.longs, targets, generated))]}
       \cup (IF e.panics THEN {Overflowed} ELSE {}) :
       e \in {extended_64(candidates_34(c26, targets))}} : TRUE

\* river_seed_finder_range: the outcomes of the call, for each choice of the
\* target maps that the two sorts can leave in the first places
river_seed_finder_range(river_coords_voronoi, generated, range_lo, range_hi) ==
  UNION {range_outcomes(c26, targets, generated) :
           targets \in target_maps_hd(river_coords_voronoi),
           c26 \in river_seed_finder_26_range(river_coords_voronoi, range_lo, range_hi)}

\* The call on the whole range [range_lo, range_hi)
SeedsWhole(points, generated, range_lo, mid, range_hi) ==
  /\ call = "none"
  /\ \E r \in river_seed_finder_range(points, generated, range_lo, range_hi) :
       /\ call' = "seeds_whole"
       /\ arg' = [points |-> points, generated |-> generated, range_lo |-> range_lo,
                  mid |-> mid, range_hi |-> range_hi]
       /\ ret' = <<r>>
  /\ UNCHANGED rngVars

\* The call on [range_lo, mid), after the call on the whole range
SeedsLeft ==
  /\ call = "seeds_whole"
  /\ \E r \in river_seed_finder_range(arg.points, arg.generated, arg.range_lo, arg.mid) :
       /\ call' = "seeds_left"
       /\ ret' = Append(ret, r)
  /\ UNCHANGED <<arg, rngVars>>

\* The call on [mid, range_hi), after the two others
SeedsRight ==
  /\ call = "seeds_left"
  /\ \E r \in river_seed_finder_range(arg.points, arg.generated, arg.mid, arg.range_hi) :
       /\ call' = "seeds_right"
       /\ ret' = Append(ret, r)
  /\ UNCHANGED <<arg, rngVars>>

SeedRangeNext ==
  \/ /\ call = "none"
     /\ \E points \in BlobPointLists, generated \in BOOLEAN, range_lo \in 0..MaxRange,
           mid \in 0..MaxRange, range_hi \in 0..MaxRange :
          /\ range_lo <= mid /\ mid <= range_hi
          /\ SeedsWhole(points, generated, range_lo, mid, range_hi)
  \/ SeedsLeft
  \/ SeedsRight

SeedRangeInit == FnIdle /\ RngIdle

SpecSeedRange == SeedRangeInit /\ [][SeedRangeNext]_vars

\* The 26-bit survivors of river_seed_finder_26_range for the range
Survivors26(points, range_lo, range_hi) ==
  UNION {{c26[k] : k \in DOMAIN c26} :
           c26 \in river_seed_finder_26_range(points, range_lo, range_hi)}

\* C30: for range_lo <= mid <= range_hi the list river_seed_finder_range
\* returns for [range_lo, range_hi) is in ascending order, holds exactly the
\* seeds, with their multiplicities, of the lists for [range_lo, mid) and
\* [mid, range_hi), and each of its seeds has the low 26 bits of a survivor of
\* river_seed_finder_26_range for the same range.
C30_RangeSeedsSortedAndSplit ==
  call = "seeds_right" =>
    /\ \A k \in 1..3 : ret[k].ok
    /\ ret[1].seeds = sort_unstable(ret[2].seeds \o ret[3].seeds)
    /\ \A k \in DOMAIN ret[1].seeds :
         Low26(ret[1].seeds[k]) \in Survivors26(arg.points, arg.range_lo, arg.range_hi)

\* What each call gives whatever the order of the fragments: a list in
\* ascending order whose seeds have the low 26 bits of a survivor
SeedsSortedWithSurvivingLowBits ==
  call = "seeds_whole" /\ ret[1].ok =>
    /\ \A k \in 1..(Len(ret[1].seeds) - 1) : ~LessI64(ret[1].seeds[k + 1], ret[1].seeds[k])
    /\ \A k \in DOMAIN ret[1].seeds :
         Low26(ret[1].seeds[k]) \in Survivors26(arg.points, arg.range_lo, arg.range_hi)

\* With at most four fragments the order of the fragments changes nothing,
\* and the list for the range holds the seeds of the lists for its two parts
SeedsSplitUpToFourFragments ==
  (/\ call = "seeds_right"
   /\ Cardinality(target_maps_hd_pushed(arg.points)) <= 4
   /\ \A k \in 1..3 : ret[k].ok) =>
    ret[1].seeds = sort_unstable(ret[2].seeds \o ret[3].seeds)

====
